---- MODULE Spec2Model ----
(***************************************************************************)
(* Model of the regexp2 / automata crates: pattern parser (shunting-yard   *)
(* over character classes), Thompson NFA constructors, subset              *)
(* construction, and the NFA / DFA simulation behind RegExp::is_match,     *)
(* find_at and find_shortest_at.                                           *)
(*                                                                         *)
(* A char is modelled by its Unicode scalar value, a string by a sequence  *)
(* of chars, Option<T> by a set with at most one element.                  *)
(***************************************************************************)
EXTENDS Integers, Sequences, FiniteSets, TLC

VARIABLES expr, pos, state, status, nfa, conv, dfa, dfa_status, call, class_ranges, inserted,
          class_op, built, built_op, table, table_op

vars == <<expr, pos, state, status, nfa, conv, dfa, dfa_status, call, class_ranges, inserted,
          class_op, built, built_op, table, table_op>>

\* the variables of the character-class operations
class_vars == <<class_ranges, inserted, class_op>>

\* the variables of the NFA under construction
builder_vars == <<built, built_op>>

\* the variables of the two-key table
table_vars == <<table, table_op>>

-----------------------------------------------------------------------------
(* Characters the parser dispatches on (regexp2/src/parser.rs, Parser::parse) *)

Pipe == 124
Star == 42
Plus == 43
Question == 63
LParen == 40
RParen == 41
LBracket == 91
RBracket == 93
Backslash == 92
Caret == 94
Dot == 46
Dash == 45
Newline == 10
Space == 32
ChA == 97
ChB == 98

(* Characters of regexp2/tests/test_char_class.rs *)
Ch0 == 48
Ch1 == 49
Ch8 == 56
Ch9 == 57
ChUpperA == 65
ChUpperZ == 90

(* Bounds of the explored input space *)
MaxPatLen == 3
MaxInputLen == 2
MaxCodePoint == 2
MaxInserts == 3

\* usize::MAX of the narrowest target (16 bits); state ids wrap around past it
UsizeMax == 65535

\* the number of calls made on the NFA under construction
MaxBuildOps == 3

\* the number of calls made on the two-key table
MaxTableOps == 3

Max(x, y) == IF x >= y THEN x ELSE y
Min(x, y) == IF x <= y THEN x ELSE y

\* The value inside a Some(..)
Unwrap(opt) == CHOOSE x \in opt : TRUE

\* All sequences over S of length at most n
SeqsUpTo(S, n) == UNION {[1..k -> S] : k \in 0..n}

-----------------------------------------------------------------------------
(* regexp2/src/class.rs: CharRange *)

USV_START_1 == 0
USV_END_1 == 55295
USV_START_2 == 57344
USV_END_2 == 1114111

CharRange_new(s, e) == [start |-> s, end |-> e]

CharRange_new_single(c) == [start |-> c, end |-> c]

CharRange_contains(r, c) == r.start <= c /\ c <= r.end

CharRange_intersection(self, other) ==
    IF other.start > self.end \/ self.start > other.end
    THEN {}
    ELSE {CharRange_new(Max(self.start, other.start), Min(self.end, other.end))}

intersects_with(self, other) == CharRange_intersection(self, other) # {}

CharRange_union(self, other) ==
    CharRange_new(Min(self.start, other.start), Max(self.end, other.end))

\* u32 -> char conversion (try_into): fails on surrogates and beyond U+10FFFF
IsChar(u) == (USV_START_1 <= u /\ u <= USV_END_1) \/ (USV_START_2 <= u /\ u <= USV_END_2)

\* CharRange::complement unwraps shift_char's conversion: TRUE when it panics
CharRange_complement_panics(self) ==
    \/ (self.start > USV_START_2 /\ ~IsChar(self.start - 1))
    \/ (~(self.start > USV_START_2) /\ self.start > USV_START_1 /\ ~IsChar(self.start - 1))
    \/ (self.end < USV_END_1 /\ ~IsChar(self.end + 1))
    \/ (~(self.end < USV_END_1) /\ self.end < USV_END_2 /\ ~IsChar(self.end + 1))

\* CharRange::complement with the upper part starting at self.end
CharRange_complement_keeps_end(self) ==
    (IF self.start > USV_START_2
     THEN <<CharRange_new(USV_START_2, self.start - 1), CharRange_new(USV_START_1, USV_END_1)>>
     ELSE IF self.start > USV_START_1
          THEN <<CharRange_new(USV_START_1, self.start - 1)>>
          ELSE <<>>)
    \o
    (IF self.end < USV_END_1
     THEN <<CharRange_new(self.end, USV_END_1), CharRange_new(USV_START_2, USV_END_2)>>
     ELSE IF self.end < USV_END_2
          THEN <<CharRange_new(self.end, USV_END_2)>>
          ELSE <<>>)

CharRange_complement(self) ==
    (IF self.start > USV_START_2
     THEN <<CharRange_new(USV_START_2, self.start - 1), CharRange_new(USV_START_1, USV_END_1)>>
     ELSE IF self.start > USV_START_1
          THEN <<CharRange_new(USV_START_1, self.start - 1)>>
          ELSE <<>>)
    \o
    (IF self.end < USV_END_1
     THEN <<CharRange_new(self.end + 1, USV_END_1), CharRange_new(USV_START_2, USV_END_2)>>
     ELSE IF self.end < USV_END_2
          THEN <<CharRange_new(self.end + 1, USV_END_2)>>
          ELSE <<>>)

-----------------------------------------------------------------------------
(* regexp2/src/mergeset.rs: MergeSet<char, CharRange>.  The OrdMap is the   *)
(* set of its values; every value is stored under its own start (its key). *)

\* OrdMap::get_prev: the entry with the greatest key <= k
get_prev(tree, k) ==
    LET c == {r \in tree : r.start <= k}
    IN IF c = {} THEN {} ELSE {CHOOSE r \in c : \A q \in c : q.start <= r.start}

\* OrdMap::get_next: the entry with the least key >= k
get_next(tree, k) ==
    LET c == {r \in tree : r.start >= k}
    IN IF c = {} THEN {} ELSE {CHOOSE r \in c : \A q \in c : q.start >= r.start}

\* insert, after get_prev: an intersecting predecessor is merged and removed,
\* and its key becomes the priority
MergePredecessor(tree, item, pred) ==
    IF pred # {} /\ intersects_with(item, Unwrap(pred))
    THEN [item |-> CharRange_union(item, Unwrap(pred)),
          priority |-> Unwrap(pred).start,
          tree |-> {r \in tree : r.start # Unwrap(pred).start}]
    ELSE [item |-> item, priority |-> item.start, tree |-> tree]

\* insert, after get_next: an intersecting successor is merged and removed
MergeSuccessor(m, succ) ==
    IF succ # {} /\ intersects_with(m.item, Unwrap(succ))
    THEN [m EXCEPT !.item = CharRange_union(m.item, Unwrap(succ)),
                   !.tree = {r \in m.tree : r.start # Unwrap(succ).start}]
    ELSE m

CheckSuccessor(m) == MergeSuccessor(m, get_next(m.tree, m.priority))

\* self.tree.insert(priority, item): replaces the value stored under priority
TreeInsert(m) == {r \in m.tree : r.start # m.priority} \cup {m.item}

MergeSet_insert(tree, item) ==
    TreeInsert(CheckSuccessor(MergePredecessor(tree, item, get_prev(tree, item.start))))

\* MergeSet::iter: the values in ascending key order
RECURSIVE MergeSet_iter(_)
MergeSet_iter(tree) ==
    IF tree = {} THEN <<>>
    ELSE LET m == CHOOSE r \in tree : \A q \in tree : r.start <= q.start
         IN <<m>> \o MergeSet_iter(tree \ {m})

RECURSIVE MergeSet_extend(_, _)
MergeSet_extend(tree, items) ==
    IF items = <<>> THEN tree
    ELSE MergeSet_extend(MergeSet_insert(tree, Head(items)), Tail(items))

-----------------------------------------------------------------------------
(* regexp2/src/class.rs: CharClass (its field ranges: the merge-set) *)

CharClass_new == {}

CharClass_add_range(cc, range) == MergeSet_insert(cc, range)

CharClass_from_ranges(items) == MergeSet_extend(CharClass_new, items)

CharClass_from_char(c) == CharClass_add_range(CharClass_new, CharRange_new(c, c))

CharClass_contains(cc, c) == \E r \in cc : CharRange_contains(r, c)

CharClass_is_empty(cc) == cc = {}

CharClass_copy_from(cc, other) == MergeSet_extend(cc, MergeSet_iter(other))

\* flat_map of self_r.intersection(other_r) over the ranges of other
RECURSIVE RangeIntersections(_, _)
RangeIntersections(self_r, others) ==
    IF others = <<>> THEN <<>>
    ELSE LET x == CharRange_intersection(self_r, Head(others))
         IN (IF x = {} THEN <<>> ELSE <<Unwrap(x)>>) \o RangeIntersections(self_r, Tail(others))

RECURSIVE IntersectionFold(_, _, _)
IntersectionFold(union, selfs, other) ==
    IF selfs = <<>> THEN union
    ELSE IntersectionFold(
             MergeSet_extend(union, RangeIntersections(Head(selfs), MergeSet_iter(other))),
             Tail(selfs), other)

CharClass_intersection(self, other) ==
    IntersectionFold(CharClass_new, MergeSet_iter(self), other)

RECURSIVE ComplementFold(_, _)
ComplementFold(union, rest) ==
    IF rest = <<>> THEN union
    ELSE ComplementFold(
             CharClass_intersection(union, CharClass_from_ranges(CharRange_complement(Head(rest)))),
             Tail(rest))

CharClass_complement(self) ==
    LET it == MergeSet_iter(self)
    IN IF it = <<>> THEN CharClass_new
       ELSE ComplementFold(CharClass_from_ranges(CharRange_complement(Head(it))), Tail(it))

CharClass_complement_panics(self) == \E r \in self : CharRange_complement_panics(r)

CharClass_newline == CharClass_from_ranges(<<CharRange_new(Newline, Newline)>>)

CharClass_all_but_newline == CharClass_complement(CharClass_newline)

-----------------------------------------------------------------------------
(* automata/src/nfa.rs: NFA<CharClass>.  The transition table              *)
(* Table<usize, Transition, HashSet<usize>> is the set of its              *)
(* <<start, label, end>> triples: add_transition accumulates the ends of   *)
(* one (start, label) key in a set.                                        *)

Epsilon == [eps |-> TRUE, cc |-> {}]

Some(c) == [eps |-> FALSE, cc |-> c]

NFA_new ==
    [start_state |-> 0, total_states |-> 1, accepting_states |-> {}, transition |-> {}]

\* add_state: the new NFA; the label returned is the old total_states
NFA_add_state(n, is_final) ==
    [n EXCEPT !.accepting_states = IF is_final THEN @ \cup {n.total_states} ELSE @,
              !.total_states = @ + 1]

\* x + 1 on usize without overflow checks
WrappingSucc(x) == (x + 1) % (UsizeMax + 1)

\* start + 1 or end + 1 overflows: a panic when overflow checks are compiled in
NFA_add_transition_overflows(n, start, end) ==
    \/ start = UsizeMax
    \/ (~(n.total_states < WrappingSucc(start)) /\ end = UsizeMax)

\* the Option returned by add_transition
NFA_add_transition_returns(n, start, end) ==
    IF n.total_states < WrappingSucc(start) \/ n.total_states < WrappingSucc(end)
    THEN "None"
    ELSE "Some"

NFA_add_transition(n, start, end, label) ==
    IF n.total_states < WrappingSucc(start) \/ n.total_states < WrappingSucc(end)
    THEN n
    ELSE [n EXCEPT !.transition = @ \cup {<<start, label, end>>}]

NFA_add_epsilon_transition(n, start, end) == NFA_add_transition(n, start, end, Epsilon)

\* add_epsilon_transition(from, end) for every from in a set of states
RECURSIVE NFA_add_epsilon_from_all(_, _, _)
NFA_add_epsilon_from_all(n, froms, end) ==
    IF froms = {} THEN n
    ELSE LET f == CHOOSE f \in froms : TRUE
         IN NFA_add_epsilon_from_all(NFA_add_epsilon_transition(n, f, end), froms \ {f}, end)

NFA_new_epsilon ==
    LET n1 == NFA_add_state(NFA_new, TRUE)
    IN NFA_add_epsilon_transition(n1, n1.start_state, NFA_new.total_states)

RECURSIVE NFA_copy_transitions(_, _, _)
NFA_copy_transitions(dest, ts, offset) ==
    IF ts = {} THEN dest
    ELSE LET t == CHOOSE t \in ts : TRUE
         IN NFA_copy_transitions(
                NFA_add_transition(dest, t[1] + offset, t[3] + offset, t[2]),
                ts \ {t}, offset)

NFA_copy_into(dest, src) ==
    LET offset == dest.total_states
        grown == [dest EXCEPT !.total_states = @ + src.total_states]
    IN NFA_copy_transitions(grown, src.transition, offset)

Offset(S, offset) == {s + offset : s \in S}

\* union: copy_into of an operand c at the current offset, the epsilon from the
\* start state to its start, and the epsilons from its finals to the accepting state
NFA_union_operand(n, c, start_state, accepting_state) ==
    NFA_add_epsilon_from_all(
        NFA_add_epsilon_transition(NFA_copy_into(n, c), start_state,
                                   c.start_state + n.total_states),
        Offset(c.accepting_states, n.total_states), accepting_state)

NFA_union(c1, c2) ==
    NFA_union_operand(
        NFA_union_operand(NFA_add_state(NFA_new, TRUE), c1,
                          NFA_new.start_state, NFA_new.total_states),
        c2, NFA_new.start_state, NFA_new.total_states)

\* concatenation that keeps the accepting states of c1 as well
NFA_concatenation_keeps_finals(c1, c2) ==
    LET offset == c1.total_states
        n1 == NFA_copy_into(c1, c2)
        n2 == NFA_add_epsilon_from_all(n1, c1.accepting_states, c2.start_state + offset)
    IN [n2 EXCEPT !.accepting_states = @ \cup Offset(c2.accepting_states, offset)]

NFA_concatenation(c1, c2) ==
    LET offset == c1.total_states
        n1 == NFA_copy_into(c1, c2)
        n2 == NFA_add_epsilon_from_all(n1, c1.accepting_states, c2.start_state + offset)
    IN [n2 EXCEPT !.accepting_states = Offset(c2.accepting_states, offset)]

\* the inner loop of kleene_star: an epsilon from `from` to every accepting state
NFA_add_epsilon_to_all(n, from) ==
    [n EXCEPT !.transition = @ \cup
        {<<from, Epsilon, a>> : a \in
            {a \in n.accepting_states :
                ~(n.total_states < from + 1 \/ n.total_states < a + 1)}}]

\* for each final of c1: an epsilon back to c1's start and one to every accepting state
RECURSIVE KleeneLoop(_, _, _, _)
KleeneLoop(n, finals, c1_start, offset) ==
    IF finals = {} THEN n
    ELSE KleeneLoop(
             NFA_add_epsilon_to_all(
                 NFA_add_epsilon_transition(n, (CHOOSE f \in finals : TRUE) + offset,
                                            c1_start + offset),
                 (CHOOSE f \in finals : TRUE) + offset),
             finals \ {CHOOSE f \in finals : TRUE}, c1_start, offset)

\* kleene_star after copy_into: offset is the total_states of new_epsilon()
NFA_kleene_star_copied(n, c1, offset) ==
    KleeneLoop(NFA_add_epsilon_transition(n, n.start_state, c1.start_state + offset),
               c1.accepting_states, c1.start_state, offset)

NFA_kleene_star(c1) ==
    NFA_kleene_star_copied(NFA_copy_into(NFA_new_epsilon, c1), c1, NFA_new_epsilon.total_states)

\* one iteration of the loop of combine over the children
NFA_combine_operand(n, c) ==
    [NFA_add_epsilon_transition(NFA_copy_into(n, c), n.start_state,
                                c.start_state + n.total_states)
        EXCEPT !.accepting_states = @ \cup Offset(c.accepting_states, n.total_states)]

RECURSIVE NFA_combine_from(_, _)
NFA_combine_from(n, cc) ==
    IF cc = <<>> THEN n
    ELSE NFA_combine_from(NFA_combine_operand(n, Head(cc)), Tail(cc))

NFA_combine(cc) == NFA_combine_from(NFA_new, cc)

\* a test that takes the start state for the accepting one
NFA_is_accepting_state_is_start(n, s) == s = n.start_state

NFA_is_accepting_state(n, label) == label \in n.accepting_states

\* transitions_from(state): the row of the table, label -> set of ends
NFA_transitions_from(n, s) ==
    {<<l, {t[3] : t \in {u \in n.transition : u[1] = s /\ u[2] = l}}>> :
        l \in {t[2] : t \in {u \in n.transition : u[1] = s}}}

\* the destinations of every transition of s, whatever its label
EpsilonDests_any_label(n, s) == {t[3] : t \in {u \in n.transition : u[1] = s}}

EpsilonDests(n, s) == {t[3] : t \in {u \in n.transition : u[1] = s /\ u[2] = Epsilon}}

\* epsilon_closure recurses with no visited set: the recursion never returns
\* (the stack overflows) when an epsilon cycle is reachable from the state.
RECURSIVE EpsilonRecursionUnbounded(_, _, _)
EpsilonRecursionUnbounded(n, s, path) ==
    \/ s \in path
    \/ \E i \in EpsilonDests(n, s) : EpsilonRecursionUnbounded(n, i, path \cup {s})

epsilon_closure_overflows(n, s) == EpsilonRecursionUnbounded(n, s, {})

\* the value returned when the recursion is bounded
RECURSIVE epsilon_closure(_, _)
epsilon_closure(n, s) ==
    {s} \cup UNION {epsilon_closure(n, i) : i \in EpsilonDests(n, s)}

epsilon_closure_set_overflows(n, state_set) ==
    \E s \in state_set : epsilon_closure_overflows(n, s)

epsilon_closure_set(n, state_set) ==
    state_set \cup UNION {epsilon_closure(n, s) : s \in state_set}

\* move_set: the label matches by PartialEq<char> for CharClass, i.e. contains
move_set(n, state_set, input) ==
    {t[3] : t \in {u \in n.transition :
        u[1] \in state_set /\ ~u[2].eps /\ CharClass_contains(u[2].cc, input)}}

-----------------------------------------------------------------------------
(* regexp2/src/class.rs: the built-in classes *)

Chd == 100
ChD == 68
Chw == 119
ChW == 87
Chn == 110
Chs == 115
ChS == 83

CharClass_word ==
    CharClass_from_ranges(<<CharRange_new(65, 90), CharRange_new(97, 122),
                            CharRange_new(48, 57), CharRange_new(95, 95)>>)

\* ranges.rs (the Unicode Nd table) is data outside the sources: its first
\* entry, the ASCII digits, stands for the table.
DECIMAL_NUMBER == <<CharRange_new(48, 57)>>

CharClass_decimal_number == CharClass_from_ranges(DECIMAL_NUMBER)

CharClass_whitespace ==
    CharClass_add_range(
        CharClass_from_ranges(
            <<CharRange_new_single(32), CharRange_new_single(12), CharRange_new_single(10),
              CharRange_new_single(13), CharRange_new_single(9), CharRange_new_single(11),
              CharRange_new_single(160), CharRange_new_single(5760),
              CharRange_new_single(8232), CharRange_new_single(8233),
              CharRange_new_single(8239), CharRange_new_single(8287),
              CharRange_new_single(12288), CharRange_new_single(65279)>>),
        CharRange_new(8192, 8202))

-----------------------------------------------------------------------------
(* regexp2/src/parser.rs: ParserState and its handlers.  A handler returns *)
(* the new ParserState; its field err is the Err(ParseError) returned by   *)
(* `?` ("none" for Ok), its field panic is set when an unwrap panicked.    *)

NoneBuf == [s0 |-> {}, s1 |-> {}, s2 |-> {}]

ParserState_new ==
    [stack |-> <<>>, op_stack |-> <<>>, paren_count_stack |-> <<>>,
     escaped |-> FALSE, insert_concat |-> FALSE, in_char_class |-> FALSE,
     char_class_buf |-> [class |-> CharClass_new, negate |-> FALSE],
     char_range_buf |-> NoneBuf,
     err |-> "none", panic |-> FALSE]

Ok(st) == st.err = "none" /\ ~st.panic

Err(st, e) == [st EXCEPT !.err = e]

Last(q) == q[Len(q)]

Front(q) == SubSeq(q, 1, Len(q) - 1)

\* NFAParser::shift_action: the primitive NFA of a class
NFAParser_shift_action(st, c) ==
    LET n1 == NFA_add_state(NFA_new, TRUE)
        prim == NFA_add_transition(n1, n1.start_state, NFA_new.total_states, Some(c))
    IN [st EXCEPT !.stack = Append(@, prim)]

\* reduce_action with a LeftParen left on the operator stack popped silently
\* instead of returning UnbalancedParentheses
NFAParser_reduce_action_paren_popped(st) ==
    IF st.op_stack = <<>> THEN Err(st, "UnbalancedOperators")
    ELSE
    LET op == Last(st.op_stack)
        popped == [st EXCEPT !.op_stack = Front(@)]
        n == Len(st.stack)
    IN CASE op \in {"Union", "Concatenation"} ->
              IF n < 2 THEN Err(popped, "UnbalancedOperators")
              ELSE LET c2 == st.stack[n]
                       c1 == st.stack[n - 1]
                       new_nfa == IF op = "Union" THEN NFA_union(c1, c2)
                                  ELSE NFA_concatenation(c1, c2)
                   IN [popped EXCEPT !.stack = Append(SubSeq(st.stack, 1, n - 2), new_nfa)]
         [] op \in {"KleeneStar", "Plus", "Optional"} ->
              IF n < 1 THEN Err(popped, "UnbalancedOperators")
              ELSE LET c1 == st.stack[n]
                       new_nfa ==
                           CASE op = "KleeneStar" -> NFA_kleene_star(c1)
                             [] op = "Plus" -> NFA_concatenation(NFA_kleene_star(c1), c1)
                             [] op = "Optional" -> NFA_union(c1, NFA_new_epsilon)
                   IN [popped EXCEPT !.stack = Append(Front(st.stack), new_nfa)]
         [] op = "EmptyPlaceholder" ->
              [popped EXCEPT !.stack =
                  Append(@, [NFA_new EXCEPT !.accepting_states = {NFA_new.start_state}])]
         [] op = "LeftParen" -> popped

NFAParser_reduce_action(st) ==
    IF st.op_stack = <<>> THEN Err(st, "UnbalancedOperators")
    ELSE
    LET op == Last(st.op_stack)
        popped == [st EXCEPT !.op_stack = Front(@)]
        n == Len(st.stack)
    IN CASE op \in {"Union", "Concatenation"} ->
              IF n < 2 THEN Err(popped, "UnbalancedOperators")
              ELSE LET c2 == st.stack[n]
                       c1 == st.stack[n - 1]
                       new_nfa == IF op = "Union" THEN NFA_union(c1, c2)
                                  ELSE NFA_concatenation(c1, c2)
                   IN [popped EXCEPT !.stack = Append(SubSeq(st.stack, 1, n - 2), new_nfa)]
         [] op \in {"KleeneStar", "Plus", "Optional"} ->
              IF n < 1 THEN Err(popped, "UnbalancedOperators")
              ELSE LET c1 == st.stack[n]
                       new_nfa ==
                           CASE op = "KleeneStar" -> NFA_kleene_star(c1)
                             [] op = "Plus" -> NFA_concatenation(NFA_kleene_star(c1), c1)
                             [] op = "Optional" -> NFA_union(c1, NFA_new_epsilon)
                   IN [popped EXCEPT !.stack = Append(Front(st.stack), new_nfa)]
         [] op = "EmptyPlaceholder" ->
              [popped EXCEPT !.stack =
                  Append(@, [NFA_new EXCEPT !.accepting_states = {NFA_new.start_state}])]
         [] op = "LeftParen" -> Err(popped, "UnbalancedParentheses")

reduce_stack(st) == NFAParser_reduce_action(st)

\* whether precedence_reduce_stack decides to reduce the top operator
PrecedenceReduces(st, op) ==
    IF st.op_stack = <<>> THEN FALSE
    ELSE LET last_op == Last(st.op_stack)
             postfix == {"KleeneStar", "Plus", "Optional"}
         IN IF last_op = op /\ last_op # "LeftParen" THEN TRUE
            ELSE IF op = "Union" THEN last_op \in {"Concatenation"} \cup postfix
            ELSE IF op = "Concatenation" THEN last_op \in postfix
            ELSE IF op \in postfix THEN FALSE
            ELSE IF op = "LeftParen" THEN last_op \in postfix
            ELSE FALSE

\* precedence_reduce_stack: at most one reduction
precedence_reduce_stack(st, op) ==
    IF PrecedenceReduces(st, op) THEN reduce_stack(st) ELSE st

\* `while self.precedence_reduce_stack(&Operator::Concatenation)? {}`: r is
\* the state a reduction left, the `?` returns its error
RECURSIVE ReduceWhileConcat(_)
ReduceWhileConcatNext(r) == IF Ok(r) THEN ReduceWhileConcat(r) ELSE r

ReduceWhileConcat(st) ==
    IF PrecedenceReduces(st, "Concatenation")
    THEN ReduceWhileConcatNext(reduce_stack(st))
    ELSE st

\* handle_char_class shifting the class without the pending concatenation
PushConcatAndShift_no_concat(r, c) ==
    IF ~Ok(r) THEN r
    ELSE [NFAParser_shift_action(r, c) EXCEPT !.insert_concat = TRUE]

\* handle_char_class after its reduce loop returned r
PushConcatAndShift(r, c) ==
    IF ~Ok(r) THEN r
    ELSE [NFAParser_shift_action(
              IF r.insert_concat THEN [r EXCEPT !.op_stack = Append(@, "Concatenation")] ELSE r,
              c)
          EXCEPT !.insert_concat = TRUE]

handle_char_class(st, c) == PushConcatAndShift(ReduceWhileConcat(st), c)

handle_literal_char(st, c) == handle_char_class(st, CharClass_from_char(c))

\* the statements after `self.precedence_reduce_stack(&op)?` returned r
PushOperator(r, op, insert_concat) ==
    IF ~Ok(r) THEN r
    ELSE [r EXCEPT !.op_stack = Append(@, op), !.insert_concat = insert_concat]

handle_union(st) == PushOperator(precedence_reduce_stack(st, "Union"), "Union", FALSE)

\* handle_kleene_star, handle_plus, handle_optional
handle_postfix(st, op) == PushOperator(precedence_reduce_stack(st, op), op, TRUE)

handle_kleene_star(st) == handle_postfix(st, "KleeneStar")

\* `+` pushed as a KleeneStar operator
handle_plus_as_kleene_star(st) == handle_postfix(st, "KleeneStar")

handle_plus(st) == handle_postfix(st, "Plus")

\* `?` pushed as a KleeneStar operator
handle_optional_as_kleene_star(st) == handle_postfix(st, "KleeneStar")

handle_optional(st) == handle_postfix(st, "Optional")

PushLeftParen(r) ==
    IF ~Ok(r) THEN r
    ELSE [r EXCEPT !.op_stack = Append(IF r.insert_concat THEN Append(@, "Concatenation") ELSE @,
                                       "LeftParen"),
                   !.paren_count_stack = Append(@, Len(r.stack)),
                   !.insert_concat = FALSE]

handle_left_paren(st) == PushLeftParen(precedence_reduce_stack(st, "LeftParen"))

\* `while !op_stack.is_empty() && *op_stack.last() != LeftParen { reduce_stack()? }`
RECURSIVE ReduceToLeftParen(_)
ReduceToLeftParenNext(r) == IF Ok(r) THEN ReduceToLeftParen(r) ELSE r

ReduceToLeftParen(st) ==
    IF st.op_stack # <<>> /\ Last(st.op_stack) # "LeftParen"
    THEN ReduceToLeftParenNext(reduce_stack(st))
    ELSE st

\* `self.op_stack.pop().ok_or(ParseError::UnbalancedOperators)?` after the loop
PopLeftParen(w) ==
    IF ~Ok(w) THEN w
    ELSE IF w.op_stack = <<>> THEN Err(w, "UnbalancedOperators")
    ELSE [w EXCEPT !.op_stack = Front(@)]

SetInsertConcat(r) == IF ~Ok(r) THEN r ELSE [r EXCEPT !.insert_concat = TRUE]

handle_right_paren(st) ==
    IF st.op_stack = <<>> THEN Err(st, "UnbalancedOperators")
    ELSE IF st.paren_count_stack = <<>> THEN Err(st, "UnbalancedParentheses")
    ELSE SetInsertConcat(
             IF Last(st.op_stack) = "LeftParen" /\ Last(st.paren_count_stack) = Len(st.stack)
             THEN reduce_stack([st EXCEPT !.op_stack = Append(Front(@), "EmptyPlaceholder")])
             ELSE PopLeftParen(ReduceToLeftParen(st)))

CharRangeBuf_is_empty(buf) == buf.s0 = {}

\* the single-char ranges of the first and of the second spot of the buffer
AddSpot(class, spot) ==
    IF spot # {} THEN CharClass_add_range(class, CharRange_new_single(Unwrap(spot))) ELSE class

\* the buffer is cleared and its chars are lost
handle_incomplete_char_range_buf_drops(st) == [st EXCEPT !.char_range_buf = NoneBuf]

handle_incomplete_char_range_buf(st) ==
    [st EXCEPT !.char_class_buf.class =
                   IF st.char_range_buf.s0 # {}
                   THEN AddSpot(AddSpot(@, st.char_range_buf.s0), st.char_range_buf.s1)
                   ELSE @,
               !.char_range_buf = NoneBuf]

clear_char_class_buf(st) ==
    [st EXCEPT !.char_class_buf = [class |-> CharClass_new, negate |-> FALSE]]

RECURSIVE append_char_range_buf(_, _)
append_char_range_buf(st, c) ==
    LET b == st.char_range_buf
    IN IF b.s0 = {} THEN [st EXCEPT !.char_range_buf.s0 = {c}]
       ELSE IF b.s1 = {}
            THEN IF c = Dash THEN [st EXCEPT !.char_range_buf.s1 = {c}]
                 ELSE append_char_range_buf(
                          [st EXCEPT !.char_class_buf.class =
                                         CharClass_add_range(@, CharRange_new_single(Unwrap(b.s0))),
                                     !.char_range_buf = NoneBuf],
                          c)
       ELSE IF b.s2 = {}
            THEN [st EXCEPT !.char_class_buf.class =
                                CharClass_add_range(@, CharRange_new(Unwrap(b.s0), c)),
                            !.char_range_buf = NoneBuf]
       ELSE st

\* handle_right_bracket after handle_char_class returned s3
ClearAfterShift(s3) == IF ~Ok(s3) THEN s3 ELSE clear_char_class_buf(s3)

\* handle_right_bracket from handle_incomplete_char_range_buf on; complement
\* unwraps a char conversion
ShiftCharClassBuf(s2) ==
    IF s2.char_class_buf.negate /\ CharClass_complement_panics(s2.char_class_buf.class)
    THEN [s2 EXCEPT !.panic = TRUE]
    ELSE ClearAfterShift(
             handle_char_class(s2, IF s2.char_class_buf.negate
                                   THEN CharClass_complement(s2.char_class_buf.class)
                                   ELSE s2.char_class_buf.class))

\* handle_right_bracket without the EmptyCharacterClass return
handle_right_bracket_unchecked(st) ==
    ShiftCharClassBuf(handle_incomplete_char_range_buf([st EXCEPT !.in_char_class = FALSE]))

handle_right_bracket(st) ==
    IF CharRangeBuf_is_empty(st.char_range_buf) /\ st.char_class_buf.class = {}
    THEN Err([st EXCEPT !.in_char_class = FALSE], "EmptyCharacterClass")
    ELSE ShiftCharClassBuf(
             handle_incomplete_char_range_buf([st EXCEPT !.in_char_class = FALSE]))

-----------------------------------------------------------------------------
(* regexp2/src/parser.rs: Parser::parse, one arm of the match per char *)

\* the arms of | * + ? ( ): `unescaped` is the handler's result outside a class
MetaArm(st, c, unescaped) ==
    IF st.escaped
    THEN LET e == [st EXCEPT !.escaped = FALSE]
         IN IF e.in_char_class THEN append_char_range_buf(e, c) ELSE handle_literal_char(e, c)
    ELSE IF st.in_char_class THEN append_char_range_buf(st, c)
    ELSE unescaped

LeftBracketArm(st, c) ==
    IF st.in_char_class THEN append_char_range_buf(st, c)
    ELSE IF st.escaped THEN handle_literal_char([st EXCEPT !.escaped = FALSE], c)
    ELSE clear_char_class_buf([st EXCEPT !.in_char_class = TRUE])

\* the `]` arm returning an error for a `]` outside a class
RightBracketArm_stray_rejected(st, c) ==
    IF st.escaped
    THEN LET e == [st EXCEPT !.escaped = FALSE]
         IN IF e.in_char_class THEN append_char_range_buf(e, c) ELSE handle_literal_char(e, c)
    ELSE IF st.in_char_class THEN handle_right_bracket(st)
    ELSE Err(st, "EmptyCharacterClass")

RightBracketArm(st, c) ==
    IF st.escaped
    THEN LET e == [st EXCEPT !.escaped = FALSE]
         IN IF e.in_char_class THEN append_char_range_buf(e, c) ELSE handle_literal_char(e, c)
    ELSE IF st.in_char_class THEN handle_right_bracket(st)
    ELSE handle_literal_char(st, c)

BackslashArm(st, c) ==
    IF st.escaped THEN handle_literal_char([st EXCEPT !.escaped = FALSE], c)
    ELSE [st EXCEPT !.escaped = TRUE]

CaretArm(st, c) ==
    IF st.escaped
    THEN LET e == [st EXCEPT !.escaped = FALSE]
         IN IF e.in_char_class THEN append_char_range_buf(e, c) ELSE handle_literal_char(e, c)
    ELSE IF st.in_char_class
         THEN IF CharRangeBuf_is_empty(st.char_range_buf) /\ st.char_class_buf.class = {}
              THEN [st EXCEPT !.char_class_buf.negate = TRUE]
              ELSE append_char_range_buf(st, c)
    ELSE handle_literal_char(st, c)

DotArm(st, c) ==
    IF st.escaped
    THEN LET e == [st EXCEPT !.escaped = FALSE]
         IN IF e.in_char_class THEN append_char_range_buf(e, c) ELSE handle_literal_char(e, c)
    ELSE IF st.in_char_class THEN append_char_range_buf(st, c)
    ELSE handle_char_class(st, CharClass_all_but_newline)

SpecialLetters == {Chd, ChD, Chw, ChW, Chn, Chs, ChS}

SpecialClass(c) ==
    CASE c = Chd -> CharClass_decimal_number
      [] c = ChD -> CharClass_complement(CharClass_decimal_number)
      [] c = Chw -> CharClass_word
      [] c = ChW -> CharClass_complement(CharClass_word)
      [] c = Chn -> CharClass_from_char(Newline)
      [] c = Chs -> CharClass_whitespace
      [] c = ChS -> CharClass_complement(CharClass_whitespace)

\* the `_` arm when is_special: the class of an escaped letter
SpecialArm(e, class) ==
    IF e.in_char_class
    THEN [handle_incomplete_char_range_buf(e) EXCEPT
              !.char_class_buf.class = CharClass_copy_from(@, class)]
    ELSE handle_char_class(e, class)

\* the `_` arm
OtherArm(st, c) ==
    IF st.escaped /\ c \in SpecialLetters
    THEN SpecialArm([st EXCEPT !.escaped = FALSE], SpecialClass(c))
    ELSE IF st.in_char_class THEN append_char_range_buf([st EXCEPT !.escaped = FALSE], c)
    ELSE handle_literal_char([st EXCEPT !.escaped = FALSE], c)

MetaChars ==
    {Pipe, Star, Plus, Question, LParen, RParen, LBracket, RBracket, Backslash, Caret, Dot}

\* `while !state.op_stack.is_empty() { state.reduce_stack()?; }`
RECURSIVE ReduceAll(_)
ReduceAllNext(r) == IF Ok(r) THEN ReduceAll(r) ELSE r

ReduceAll(st) == IF st.op_stack # <<>> THEN ReduceAllNext(reduce_stack(st)) ELSE st

\* the end of Parser::parse, after the last char
ParseFinish(st, e) ==
    ReduceAll(IF e = <<>> THEN [st EXCEPT !.op_stack = Append(@, "EmptyPlaceholder")] ELSE st)

-----------------------------------------------------------------------------
(* regexp2/src/regexp.rs: impl Disjoin for CharClass *)

\* sort_by is a stable sort: e goes after the elements at the same position
RECURSIVE InsertStable(_, _)
InsertStable(sorted, e) ==
    IF sorted = <<>> THEN <<e>>
    ELSE IF Last(sorted)[1] <= e[1] THEN Append(sorted, e)
    ELSE Append(InsertStable(Front(sorted), e), Last(sorted))

RECURSIVE SortByPosition(_)
SortByPosition(evs) ==
    IF evs = <<>> THEN <<>> ELSE InsertStable(SortByPosition(Front(evs)), Last(evs))

RECURSIVE FlatRanges(_)
FlatRanges(vec) ==
    IF vec = <<>> THEN <<>> ELSE MergeSet_iter(Head(vec)) \o FlatRanges(Tail(vec))

\* the events with every end event at r.end
DisjoinEvents_ends_inclusive(vec) ==
    LET ranges == FlatRanges(vec)
        starts == [i \in 1..Len(ranges) |-> <<ranges[i].start, 1>>]
        ends == [i \in 1..Len(ranges) |-> <<ranges[i].end, -1>>]
    IN SortByPosition(starts \o ends)

DisjoinEvents(vec) ==
    LET ranges == FlatRanges(vec)
        starts == [i \in 1..Len(ranges) |-> <<ranges[i].start, 1>>]
        ends == [i \in 1..Len(ranges) |-> <<ranges[i].end + 1, -1>>]
    IN SortByPosition(starts \o ends)

\* the sweep emitting a piece at every event under a positive count
RECURSIVE Sweep_no_position_check(_, _, _)
Sweep_no_position_check(evs, prev, count) ==
    IF evs = <<>> THEN <<>>
    ELSE LET x == Head(evs)[1]
             c == Head(evs)[2]
             ret == IF count # 0
                    THEN <<CharClass_from_ranges(<<CharRange_new(prev, x - 1)>>)>>
                    ELSE <<>>
         IN ret \o Sweep_no_position_check(Tail(evs), x, count + c)

\* the sweep with every piece ending at the event position itself
RECURSIVE Sweep_pieces_end_at_event(_, _, _)
Sweep_pieces_end_at_event(evs, prev, count) ==
    IF evs = <<>> THEN <<>>
    ELSE LET x == Head(evs)[1]
             c == Head(evs)[2]
             ret == IF x > prev /\ count # 0
                    THEN <<CharClass_from_ranges(<<CharRange_new(prev, x)>>)>>
                    ELSE <<>>
         IN ret \o Sweep_pieces_end_at_event(Tail(evs), x, count + c)

\* the filter_map closure over the sorted events, with its captured prev and count
RECURSIVE Sweep(_, _, _)
Sweep(evs, prev, count) ==
    IF evs = <<>> THEN <<>>
    ELSE LET x == Head(evs)[1]
             c == Head(evs)[2]
             ret == IF x > prev /\ count # 0
                    THEN <<CharClass_from_ranges(<<CharRange_new(prev, x - 1)>>)>>
                    ELSE <<>>
         IN ret \o Sweep(Tail(evs), x, count + c)

\* an emitted bound that is no char: try_into().unwrap() panics
RECURSIVE SweepPanics(_, _, _)
SweepPanics(evs, prev, count) ==
    IF evs = <<>> THEN FALSE
    ELSE LET x == Head(evs)[1]
             c == Head(evs)[2]
         IN \/ (x > prev /\ count # 0 /\ (~IsChar(prev) \/ ~IsChar(x - 1)))
            \/ SweepPanics(Tail(evs), x, count + c)

Disjoin_disjoin(vec) == Sweep(DisjoinEvents(vec), 0, 0)

Disjoin_disjoin_panics(vec) == SweepPanics(DisjoinEvents(vec), 0, 0)

Disjoin_contains(self, other) == ~CharClass_is_empty(CharClass_intersection(self, other))

-----------------------------------------------------------------------------
(* automata/src/dfa.rs: DFA<CharClass>; Table<usize, Transition, usize> is  *)
(* the set of its <<start, label, end>> triples, one per (start, label).   *)

DFA_new ==
    [initial_state |-> 0, total_states |-> 1, final_states |-> {}, transition |-> {}]

DFA_add_state(d, is_final) ==
    [d EXCEPT !.final_states = IF is_final THEN @ \cup {d.total_states} ELSE @,
              !.total_states = @ + 1]

\* Table::set overwrites the value stored for (start, label)
DFA_add_transition(d, start, end, label) ==
    IF d.total_states < WrappingSucc(start) \/ d.total_states < WrappingSucc(end)
    THEN d
    ELSE [d EXCEPT !.transition =
             {t \in @ : ~(t[1] = start /\ t[2] = label)} \cup {<<start, label, end>>}]

DFA_is_final_state(d, s) == s \in d.final_states

-----------------------------------------------------------------------------
(* automata/src/convert.rs: From<NFA<T>> for DFAFromNFA<T> *)

DState_new(label, nfa_states) == [label |-> label, nfa_states |-> nfa_states]

RECURSIVE SetToSeq(_)
SetToSeq(S) ==
    IF S = {} THEN <<>>
    ELSE LET x == CHOOSE x \in S : TRUE IN <<x>> \o SetToSeq(S \ {x})

\* transition_map: a (class, destinations) pair for every non-epsilon entry of
\* the rows of the NFA states of s (in an order the hash maps decide)
TransitionMap(n, s) ==
    SetToSeq(UNION {{<<q, e[1].cc, e[2]>> :
        e \in {f \in NFA_transitions_from(n, q) : ~f[1].eps}} : q \in s.nfa_states})

\* the states of the map whose class contains the piece t
MovedSet(transition_map, t) ==
    UNION {transition_map[i][3] :
        i \in {j \in 1..Len(transition_map) : Disjoin_contains(transition_map[j][2], t)}}

\* a search that finds no state
FindDState_never_finds(states, nfa_states) == {}

\* iter().find(..): the first state with these NFA states
FindDState(states, nfa_states) ==
    LET hits == {i \in 1..Len(states) : states[i].nfa_states = nfa_states}
    IN IF hits = {} THEN {} ELSE {states[CHOOSE i \in hits : \A j \in hits : i <= j]}

\* the body of `for t in disjoint_transitions`, from epsilon_closure_set on
ConvertClosure(n, c, s, closure, t) ==
    IF s.nfa_states = closure
    THEN [c EXCEPT !.dfa = DFA_add_transition(@, s.label, s.label, t)]
    ELSE IF FindDState(c.marked_states, closure) # {}
    THEN [c EXCEPT !.dfa = DFA_add_transition(
              @, s.label, Unwrap(FindDState(c.marked_states, closure)).label, t)]
    ELSE IF FindDState(c.unmarked_states, closure) # {}
    THEN [c EXCEPT !.dfa = DFA_add_transition(
              @, s.label, Unwrap(FindDState(c.unmarked_states, closure)).label, t)]
    ELSE [c EXCEPT !.dfa = DFA_add_transition(
                      IF \E i \in closure : NFA_is_accepting_state(n, i)
                      THEN [DFA_add_state(@, FALSE) EXCEPT
                               !.final_states = @ \cup {c.dfa.total_states}]
                      ELSE DFA_add_state(@, FALSE),
                      s.label, c.dfa.total_states, t),
                  !.nfa_mapping = @ \cup {<<c.dfa.total_states, closure>>},
                  !.unmarked_states = Append(@, DState_new(c.dfa.total_states, closure))]

\* epsilon_closure_set(&moved_set) recurses without bound on an epsilon cycle
ConvertMoved(n, c, s, moved_set, t) ==
    IF epsilon_closure_set_overflows(n, moved_set) THEN [c EXCEPT !.overflow = TRUE]
    ELSE ConvertClosure(n, c, s, epsilon_closure_set(n, moved_set), t)

\* the body of `for t in disjoint_transitions`
ConvertPiece(n, c, s, transition_map, t) ==
    ConvertMoved(n, c, s, MovedSet(transition_map, t), t)

RECURSIVE ConvertPieces(_, _, _, _, _)
ConvertPieces(n, c, s, transition_map, pieces) ==
    IF pieces = <<>> \/ c.overflow THEN c
    ELSE ConvertPieces(n, ConvertPiece(n, c, s, transition_map, Head(pieces)),
                       s, transition_map, Tail(pieces))

\* the statements before the while loop
ConvertStart(n) ==
    IF epsilon_closure_overflows(n, n.start_state)
    THEN [dfa |-> DFA_new, nfa_mapping |-> {}, marked_states |-> <<>>,
          unmarked_states |-> <<>>, overflow |-> TRUE, panic |-> FALSE]
    ELSE LET initial_unmarked == DState_new(0, epsilon_closure(n, n.start_state))
         IN [dfa |-> IF \E i \in initial_unmarked.nfa_states : NFA_is_accepting_state(n, i)
                     THEN [DFA_new EXCEPT !.final_states = {initial_unmarked.label}]
                     ELSE DFA_new,
             nfa_mapping |-> {<<initial_unmarked.label, initial_unmarked.nfa_states>>},
             marked_states |-> <<>>,
             unmarked_states |-> <<initial_unmarked>>,
             overflow |-> FALSE, panic |-> FALSE]

\* marked_states.push(s) at the end of an iteration
MarkState(r, s) == IF r.overflow THEN r ELSE [r EXCEPT !.marked_states = Append(@, s)]

\* the classes of the transition map: transition_map.iter().map(|(a, _)| a)
Classes(transition_map) == [i \in 1..Len(transition_map) |-> transition_map[i][2]]

\* an iteration from T::disjoin on
ConvertTransitions(n, popped, s, transition_map) ==
    IF Disjoin_disjoin_panics(Classes(transition_map)) THEN [popped EXCEPT !.panic = TRUE]
    ELSE MarkState(ConvertPieces(n, popped, s, transition_map,
                                 Disjoin_disjoin(Classes(transition_map))), s)

\* one iteration of `while let Some(s) = unmarked_states.pop_front()`
ConvertIteration(n, c) ==
    ConvertTransitions(n, [c EXCEPT !.unmarked_states = Tail(@)], Head(c.unmarked_states),
                       TransitionMap(n, Head(c.unmarked_states)))

-----------------------------------------------------------------------------
(* automata/src/matching.rs: Match; input.skip(start) *)

Match_new(start, end, span) == [start |-> start, end |-> end, span |-> span]

Skip(input, n) == SubSeq(input, Min(n, Len(input)) + 1, Len(input))

-----------------------------------------------------------------------------
(* automata/src/nfa.rs: simulation *)

\* the `for is in input` loop of is_match
RECURSIVE NFA_run(_, _, _)
NFA_run(n, state_set, input) ==
    IF input = <<>> THEN state_set
    ELSE NFA_run(n, epsilon_closure_set(n, move_set(n, state_set, Head(input))), Tail(input))

\* the loop of is_match reaches an epsilon_closure that never returns
RECURSIVE NFA_run_overflows(_, _, _)
NFA_run_overflows(n, state_set, input) ==
    /\ input # <<>>
    /\ \/ epsilon_closure_set_overflows(n, move_set(n, state_set, Head(input)))
       \/ NFA_run_overflows(n, epsilon_closure_set(n, move_set(n, state_set, Head(input))),
                            Tail(input))

\* is_match never returns: the stack overflows in epsilon_closure
NFA_is_match_overflows(n, input) ==
    \/ epsilon_closure_overflows(n, n.start_state)
    \/ NFA_run_overflows(n, epsilon_closure(n, n.start_state), input)

NFA_any_accepting(n, state_set) == \E s \in state_set : NFA_is_accepting_state(n, s)

NFA_is_match(n, input) ==
    NFA_any_accepting(n, NFA_run(n, epsilon_closure(n, n.start_state), input))

\* the `for (i, is) in input.enumerate()` loop of find_at_impl
RECURSIVE NFA_find_loop(_, _, _, _, _, _, _, _)
NFA_find_loop(n, state_set, input, i, span, last_match, start, shortest) ==
    IF input = <<>> THEN last_match
    ELSE LET next_set == epsilon_closure_set(n, move_set(n, state_set, Head(input)))
             pushed == Append(span, Head(input))
         IN IF NFA_any_accepting(n, next_set)
            THEN IF shortest THEN {Match_new(start, i + 1, pushed)}
                 ELSE NFA_find_loop(n, next_set, Tail(input), i + 1, pushed,
                                    {Match_new(start, i + 1, pushed)}, start, shortest)
            ELSE NFA_find_loop(n, next_set, Tail(input), i + 1, pushed,
                               last_match, start, shortest)

\* find_at_impl reading its `shortest` flag inverted
NFA_find_at_impl_inverted(n, input, start, shortest) ==
    LET last_match == IF NFA_is_accepting_state(n, n.start_state)
                      THEN {Match_new(start, start, <<>>)}
                      ELSE {}
    IN IF ~shortest /\ last_match # {} THEN last_match
       ELSE NFA_find_loop(n, epsilon_closure(n, n.start_state), Skip(input, start),
                          0, <<>>, last_match, start, ~shortest)

NFA_find_at_impl(n, input, start, shortest) ==
    LET last_match == IF NFA_is_accepting_state(n, n.start_state)
                      THEN {Match_new(start, start, <<>>)}
                      ELSE {}
    IN IF shortest /\ last_match # {} THEN last_match
       ELSE NFA_find_loop(n, epsilon_closure(n, n.start_state), Skip(input, start),
                          0, <<>>, last_match, start, shortest)

NFA_find_at(n, input, start) == NFA_find_at_impl(n, input, start, FALSE)

NFA_find_shortest_at(n, input, start) == NFA_find_at_impl(n, input, start, TRUE)

-----------------------------------------------------------------------------
(* automata/src/dfa.rs: simulation *)

DFA_transitions_on(d, s) == {t \in d.transition : t[1] = s}

\* iter_on_next: None at the end of the input is decided by the caller below;
\* None when no transition of the current state matches the symbol.  The
\* transitions of one state are pairwise disjoint classes, so find(..) has at
\* most one candidate (DFADeterministic).
iter_on_next(d, current, is) ==
    LET hits == {t \in DFA_transitions_on(d, current) : CharClass_contains(t[2], is)}
    IN IF hits = {} THEN {}
       ELSE LET next_state == (CHOOSE t \in hits : TRUE)[3]
            IN {[state |-> next_state, is |-> is,
                 is_final |-> DFA_is_final_state(d, next_state)]}

\* the items the iterator of iter_on yields
RECURSIVE DFA_iter_from(_, _, _)
DFA_iter_from(d, current, input) ==
    IF input = <<>> THEN <<>>
    ELSE LET nx == iter_on_next(d, current, Head(input))
         IN IF nx = {} THEN <<>>
            ELSE <<Unwrap(nx)>> \o DFA_iter_from(d, Unwrap(nx).state, Tail(input))

DFA_iter_on(d, input) == DFA_iter_from(d, d.initial_state, input)

DFA_is_match(d, input) ==
    LET items == DFA_iter_on(d, input)
    IN IF items = <<>> THEN FALSE ELSE Last(items).is_final

\* the `for (i, (s, is, is_final)) in iter` loop of find_at_impl
RECURSIVE DFA_find_loop(_, _, _, _, _, _)
DFA_find_loop(items, i, span, last_match, start, shortest) ==
    IF items = <<>> THEN last_match
    ELSE LET pushed == Append(span, Head(items).is)
         IN IF Head(items).is_final
            THEN IF shortest THEN {Match_new(start, i + 1, pushed)}
                 ELSE DFA_find_loop(Tail(items), i + 1, pushed,
                                    {Match_new(start, i + 1, pushed)}, start, shortest)
            ELSE DFA_find_loop(Tail(items), i + 1, pushed, last_match, start, shortest)

\* iter_on(input).skip(start): the automaton runs over the whole input and
\* the first `start` items of the run are dropped
DFA_find_at_impl(d, input, start, shortest) ==
    LET last_match == IF DFA_is_final_state(d, d.initial_state)
                      THEN {Match_new(start, start, <<>>)}
                      ELSE {}
    IN IF shortest /\ last_match # {} THEN last_match
       ELSE DFA_find_loop(Skip(DFA_iter_on(d, input), start), 0, <<>>,
                          last_match, start, shortest)

DFA_find_at(d, input, start) == DFA_find_at_impl(d, input, start, FALSE)

DFA_find_shortest_at(d, input, start) == DFA_find_at_impl(d, input, start, TRUE)

-----------------------------------------------------------------------------
(* The patterns and inputs explored *)

CoreChars == {ChA, ChB, LParen, RParen, Pipe, Star}

\* operands of the postfix operators, each with the inputs it accepts
Operands ==
    {[pat |-> <<ChA>>, lang |-> {<<ChA>>}],
     [pat |-> <<ChB>>, lang |-> {<<ChB>>}],
     [pat |-> <<LParen, ChA, ChB, RParen>>, lang |-> {<<ChA, ChB>>}],
     [pat |-> <<LParen, ChA, Pipe, ChB, RParen>>, lang |-> {<<ChA>>, <<ChB>>}]}

\* (a|b)*abb, and patterns for the remaining arms of the parser
ScenarioPatterns ==
    {<<LParen, ChA, Pipe, ChB, RParen, Star, ChA, ChB, ChB>>,
     <<LParen, ChA, ChB, RParen, Star>>,
     <<LParen, ChA, Star, RParen, Star>>,
     <<ChA, Question>>, <<ChA, Plus>>, <<Question>>, <<Plus>>,
     <<LBracket>>, <<Backslash>>, <<LBracket, ChA>>, <<ChA, Backslash>>,
     <<LBracket, ChA, RBracket>>, <<LBracket, Caret, ChA, RBracket>>,
     <<LBracket, ChA, Dash, ChB, RBracket>>, <<RBracket>>, <<Caret>>,
     <<Dot>>, <<ChA, Dot>>, <<Backslash, Chs>>, <<Backslash, Star>>,
     <<LBracket, RBracket>>, <<ChA, LBracket, RBracket>>, <<LBracket, Caret, RBracket>>,
     <<LBracket, ChA, RBracket, RBracket>>, <<ChA, RBracket>>, <<Star, RBracket>>,
     <<Dot, Pipe, ChA>>, <<LBracket, ChA, Dash, ChB, RBracket, Pipe, ChA>>,
     <<LBracket, Caret, Ch1, Dash, Ch8, RBracket>>,
     <<LBracket, ChA, Caret, Ch1, Dash, Ch8, RBracket>>,
     <<LBracket, Caret, Caret, ChA, RBracket>>, <<LBracket, ChA, Caret, RBracket>>,
     <<LBracket, Caret, ChA, Caret, RBracket>>,
     <<LBracket, Backslash, Chd, Dash, RBracket>>,
     <<LBracket, Dash, Backslash, Chd, ChUpperA, Dash, ChUpperZ, RBracket>>,
     <<LBracket, ChA, Dash, Backslash, Chd, RBracket>>}
    \cup {<<x, y, Star, Pipe, z>> : x \in {ChA, ChB}, y \in {ChA, ChB}, z \in {ChA, ChB}}
    \cup {<<x, Pipe, y, z>> : x \in {ChA, ChB}, y \in {ChA, ChB}, z \in {ChA, ChB}}
    \cup {<<LParen, LParen, LParen, RParen, RParen, RParen>>,
          <<LParen, RParen, LParen, RParen>>, <<LParen, RParen, ChA, ChB>>,
          <<ChA, LParen, RParen, ChB>>,
          <<LParen, LParen, ChA, LParen, RParen, RParen, RParen>>}
    \cup {o.pat \o <<Plus>> : o \in Operands}
    \cup {o.pat \o o.pat \o <<Star>> : o \in Operands}
    \cup {o.pat \o <<Star>> \o o.pat : o \in Operands}
    \cup {o.pat \o <<Question>> : o \in Operands}

Patterns == SeqsUpTo(CoreChars, MaxPatLen) \cup ScenarioPatterns

ScenarioInputs ==
    {<<ChA, ChB, ChB>>, <<ChA, ChB, ChB, Space>>, <<ChA, ChA, ChB, ChA, ChB, ChB>>,
     <<Space>>, <<ChA, Space>>, <<ChA, RBracket>>, <<RBracket>>,
     <<ChA, ChB, ChA, ChB>>, <<ChA, ChB, ChA>>,
     <<Ch0>>, <<Ch1>>, <<Ch8>>, <<Ch9>>, <<Caret>>, <<Dash>>, <<ChUpperA>>, <<ChUpperZ>>,
     <<LBracket>>}

Inputs == SeqsUpTo({ChA, ChB}, MaxInputLen) \cup ScenarioInputs

NoCall ==
    [op |-> "none", input |-> <<>>, start |-> 0,
     nfa_is_match |-> FALSE, dfa_is_match |-> FALSE,
     nfa_found |-> {}, dfa_found |-> {}, nfa_overflow |-> FALSE, dfa_steps |-> 0]

NoConv ==
    [dfa |-> DFA_new, nfa_mapping |-> {}, marked_states |-> <<>>,
     unmarked_states |-> <<>>, overflow |-> FALSE, panic |-> FALSE]

\* no class operation has been applied yet
NoClassOp ==
    [op |-> "none", arg |-> {}, vec |-> <<>>, panic |-> FALSE, result |-> {}, pieces |-> <<>>]

\* Table::new: no row
Table_new == {}

\* no builder call yet
NoBuiltOp ==
    [op |-> "none", before |-> NFA_new, start |-> 0, end |-> 0, label |-> Epsilon,
     returned |-> "none", panic |-> FALSE, count |-> 0, operands |-> <<>>]

\* no table call yet
NoTableOp ==
    [op |-> "none", before |-> Table_new, row |-> 0, col |-> 0, val |-> {}, elem |-> 0,
     returned |-> {}, count |-> 0]

Init ==
    /\ expr \in Patterns
    /\ pos = 0
    /\ state = ParserState_new
    /\ status = "parsing"
    /\ nfa = {}
    /\ conv = NoConv
    /\ dfa = {}
    /\ dfa_status = "none"
    /\ call = NoCall
    /\ class_ranges = CharClass_new
    /\ inserted = <<>>
    /\ class_op = NoClassOp
    /\ built = NFA_new
    /\ built_op = NoBuiltOp
    /\ table = Table_new
    /\ table_op = NoTableOp

-----------------------------------------------------------------------------
(* Parser::parse: one iteration of `while next.is_some()` per action *)

AtChar(c) == status = "parsing" /\ pos < Len(expr) /\ expr[pos + 1] = c

\* the `?` after a handler returns the error; a failed unwrap panics
Advance(r) ==
    /\ state' = r
    /\ pos' = pos + 1
    /\ status' = IF r.panic THEN "panic" ELSE IF r.err # "none" THEN "error" ELSE "parsing"
    /\ UNCHANGED <<class_vars, builder_vars, table_vars, expr, nfa, conv, dfa, dfa_status, call>>

ParsePipe == AtChar(Pipe) /\ Advance(MetaArm(state, Pipe, handle_union(state)))

ParseStar == AtChar(Star) /\ Advance(MetaArm(state, Star, handle_kleene_star(state)))

ParsePlus == AtChar(Plus) /\ Advance(MetaArm(state, Plus, handle_plus(state)))

ParseQuestion ==
    AtChar(Question) /\ Advance(MetaArm(state, Question, handle_optional(state)))

ParseLeftParen ==
    AtChar(LParen) /\ Advance(MetaArm(state, LParen, handle_left_paren(state)))

ParseRightParen ==
    AtChar(RParen) /\ Advance(MetaArm(state, RParen, handle_right_paren(state)))

ParseLeftBracket == AtChar(LBracket) /\ Advance(LeftBracketArm(state, LBracket))

ParseRightBracket == AtChar(RBracket) /\ Advance(RightBracketArm(state, RBracket))

ParseBackslash == AtChar(Backslash) /\ Advance(BackslashArm(state, Backslash))

ParseCaret == AtChar(Caret) /\ Advance(CaretArm(state, Caret))

ParseDot == AtChar(Dot) /\ Advance(DotArm(state, Dot))

ParseOther ==
    /\ status = "parsing" /\ pos < Len(expr) /\ expr[pos + 1] \notin MetaChars
    /\ Advance(OtherArm(state, expr[pos + 1]))

\* RegExp::new_nfa: `parser.parse(expr)?.unwrap()` on the result r of parse,
\* whose value is stack.into_iter().last()
CompileStatus(r) ==
    IF r.panic THEN "panic"
    ELSE IF r.err # "none" THEN "error"
    ELSE IF r.stack = <<>> THEN "panic"
    ELSE "compiled"

CompiledEngine(r) == IF Ok(r) /\ r.stack # <<>> THEN {Last(r.stack)} ELSE {}

\* the end of Parser::parse and RegExp::new_nfa
ParseEnd ==
    /\ status = "parsing" /\ pos = Len(expr)
    /\ state' = ParseFinish(state, expr)
    /\ status' = CompileStatus(state')
    /\ nfa' = CompiledEngine(state')
    /\ UNCHANGED <<class_vars, builder_vars, table_vars, expr, pos, conv, dfa, dfa_status, call>>

-----------------------------------------------------------------------------
(* RegExp::with_dfa: DFAFromNFA::from, one iteration of its loop per action *)

ConvertInit ==
    /\ status = "compiled" /\ dfa_status = "none"
    /\ conv' = ConvertStart(Unwrap(nfa))
    /\ dfa_status' = IF conv'.overflow THEN "overflow" ELSE "converting"
    /\ UNCHANGED <<class_vars, builder_vars, table_vars, expr, pos, state, status, nfa, dfa, call>>

ConvertStep ==
    /\ dfa_status = "converting" /\ conv.unmarked_states # <<>>
    /\ conv' = ConvertIteration(Unwrap(nfa), conv)
    /\ dfa_status' = IF conv'.overflow THEN "overflow"
                     ELSE IF conv'.panic THEN "panic"
                     ELSE "converting"
    /\ UNCHANGED <<class_vars, builder_vars, table_vars, expr, pos, state, status, nfa, dfa, call>>

ConvertDone ==
    /\ dfa_status = "converting" /\ conv.unmarked_states = <<>>
    /\ dfa' = {conv.dfa}
    /\ dfa_status' = "ready"
    /\ UNCHANGED <<class_vars, builder_vars, table_vars, expr, pos, state, status, nfa, conv, call>>

-----------------------------------------------------------------------------
(* RegExp::is_match, find_at, find_shortest_at on the NFA-backed and the    *)
(* DFA-backed regex of the pattern                                          *)

Compiled == dfa_status = "ready" /\ call.op = "none"

IsMatch ==
    /\ Compiled
    /\ \E input \in Inputs :
         call' = [NoCall EXCEPT !.op = "is_match", !.input = input,
                     !.nfa_is_match = NFA_is_match(Unwrap(nfa), input),
                     !.dfa_is_match = DFA_is_match(Unwrap(dfa), input),
                     !.dfa_steps = Len(DFA_iter_on(Unwrap(dfa), input))]
    /\ UNCHANGED <<class_vars, builder_vars, table_vars, expr, pos, state, status, nfa, conv, dfa, dfa_status>>

\* RegExp::is_match on the NFA-backed regex of a pattern whose DFA could not
\* be built
IsMatchNFA ==
    /\ status = "compiled" /\ dfa_status = "overflow" /\ call.op = "none"
    /\ \E input \in Inputs :
         call' = [NoCall EXCEPT !.op = "is_match", !.input = input,
                     !.nfa_overflow = NFA_is_match_overflows(Unwrap(nfa), input),
                     !.nfa_is_match = IF NFA_is_match_overflows(Unwrap(nfa), input)
                                      THEN FALSE
                                      ELSE NFA_is_match(Unwrap(nfa), input)]
    /\ UNCHANGED <<class_vars, builder_vars, table_vars, expr, pos, state, status, nfa, conv, dfa, dfa_status>>

FindAt ==
    /\ Compiled
    /\ \E input \in Inputs : \E start \in 0..Len(input) :
         call' = [NoCall EXCEPT !.op = "find_at", !.input = input, !.start = start,
                     !.nfa_found = NFA_find_at(Unwrap(nfa), input, start),
                     !.dfa_found = DFA_find_at(Unwrap(dfa), input, start)]
    /\ UNCHANGED <<class_vars, builder_vars, table_vars, expr, pos, state, status, nfa, conv, dfa, dfa_status>>

FindShortestAt ==
    /\ Compiled
    /\ \E input \in Inputs : \E start \in 0..Len(input) :
         call' = [NoCall EXCEPT !.op = "find_shortest_at", !.input = input, !.start = start,
                     !.nfa_found = NFA_find_shortest_at(Unwrap(nfa), input, start),
                     !.dfa_found = DFA_find_shortest_at(Unwrap(dfa), input, start)]
    /\ UNCHANGED <<class_vars, builder_vars, table_vars, expr, pos, state, status, nfa, conv, dfa, dfa_status>>

Next ==
    \/ ParsePipe \/ ParseStar \/ ParsePlus \/ ParseQuestion
    \/ ParseLeftParen \/ ParseRightParen
    \/ ParseLeftBracket \/ ParseRightBracket
    \/ ParseBackslash \/ ParseCaret \/ ParseDot \/ ParseOther
    \/ ParseEnd
    \/ ConvertInit \/ ConvertStep \/ ConvertDone
    \/ IsMatch \/ IsMatchNFA \/ FindAt \/ FindShortestAt

Spec == Init /\ [][Next]_vars

-----------------------------------------------------------------------------
(* A character class on its own: CharClass::add_range, i.e. MergeSet::insert, *)
(* called with any ranges in any order; inserted is the history of the calls *)

ClassInit ==
    /\ class_ranges = CharClass_new
    /\ inserted = <<>>
    /\ class_op = NoClassOp
    /\ expr = <<>> /\ pos = 0 /\ state = ParserState_new /\ status = "parsing"
    /\ nfa = {} /\ conv = NoConv /\ dfa = {} /\ dfa_status = "none" /\ call = NoCall
    /\ built = NFA_new /\ built_op = NoBuiltOp
    /\ table = Table_new /\ table_op = NoTableOp

\* the endpoints of the ranges: the low code points and the two edges of the
\* surrogate gap
ClassPoints == (0..MaxCodePoint) \cup {USV_END_1, USV_START_2}

AddRange ==
    /\ class_op.op = "none"
    /\ Len(inserted) < MaxInserts
    /\ \E s \in ClassPoints : \E e \in {p \in ClassPoints : s <= p} :
         /\ class_ranges' = CharClass_add_range(class_ranges, CharRange_new(s, e))
         /\ inserted' = Append(inserted, CharRange_new(s, e))
    /\ UNCHANGED <<class_op, builder_vars, table_vars,
                   expr, pos, state, status, nfa, conv, dfa, dfa_status, call>>

\* cc.complement() on the class built so far
Complement ==
    /\ class_op.op = "none"
    /\ class_op' = [op |-> "complement",
                    arg |-> class_ranges,
                    vec |-> <<>>,
                    panic |-> CharClass_complement_panics(class_ranges),
                    result |-> IF CharClass_complement_panics(class_ranges)
                               THEN CharClass_new
                               ELSE CharClass_complement(class_ranges),
                    pieces |-> <<>>]
    /\ UNCHANGED <<class_ranges, inserted, builder_vars, table_vars,
                   expr, pos, state, status, nfa, conv, dfa, dfa_status, call>>

\* the list of classes handed to disjoin: the class built so far and one
\* class per inserted range
DisjoinInput ==
    <<class_ranges>> \o [i \in 1..Len(inserted) |-> CharClass_from_ranges(<<inserted[i]>>)]

\* CharClass::disjoin(vec) on the classes built so far
Disjoin ==
    /\ class_op.op = "none"
    /\ inserted # <<>>
    /\ class_op' = [op |-> "disjoin",
                    arg |-> CharClass_new,
                    vec |-> DisjoinInput,
                    panic |-> Disjoin_disjoin_panics(DisjoinInput),
                    result |-> CharClass_new,
                    pieces |-> IF Disjoin_disjoin_panics(DisjoinInput)
                               THEN <<>>
                               ELSE Disjoin_disjoin(DisjoinInput)]
    /\ UNCHANGED <<class_ranges, inserted, builder_vars, table_vars,
                   expr, pos, state, status, nfa, conv, dfa, dfa_status, call>>

ClassNext == AddRange \/ Complement \/ Disjoin

ClassSpec == ClassInit /\ [][ClassNext]_vars

-----------------------------------------------------------------------------
(* An NFA under construction: the constructors of automata/src/nfa.rs called *)
(* in any order; built_op is the last call, with the NFA it was made on      *)

BuilderInit ==
    /\ built = NFA_new
    /\ built_op = NoBuiltOp
    /\ class_ranges = CharClass_new /\ inserted = <<>> /\ class_op = NoClassOp
    /\ expr = <<>> /\ pos = 0 /\ state = ParserState_new /\ status = "parsing"
    /\ nfa = {} /\ conv = NoConv /\ dfa = {} /\ dfa_status = "none" /\ call = NoCall
    /\ table = Table_new /\ table_op = NoTableOp

\* the state ids handed to add_transition
BuildIds == {0, 1, 2, UsizeMax}

\* the labels handed to add_transition
BuildLabels == {Epsilon, Some(CharClass_from_char(ChA))}

\* the other operand of a binary constructor
BuildOperands(n) == {NFA_new_epsilon, n}

CanBuild == ~built_op.panic /\ built_op.count < MaxBuildOps

\* a constructor that takes no state id has returned result for its operands
Built(op, result, operands) ==
    /\ built' = result
    /\ built_op' = [op |-> op, before |-> built, start |-> 0, end |-> 0, label |-> Epsilon,
                    returned |-> "none", panic |-> FALSE, count |-> built_op.count + 1,
                    operands |-> operands]
    /\ UNCHANGED <<class_vars, table_vars,
                   expr, pos, state, status, nfa, conv, dfa, dfa_status, call>>

BuildNewEpsilon == CanBuild /\ Built("new_epsilon", NFA_new_epsilon, <<>>)

BuildAddState == CanBuild /\ \E is_final \in BOOLEAN : Built("add_state", NFA_add_state(built, is_final), <<>>)

\* add_transition; checked: the call overflows and overflow checks are compiled in
BuildAddTransition ==
    /\ CanBuild
    /\ \E start \in BuildIds : \E end \in BuildIds : \E label \in BuildLabels :
       \E checked \in {FALSE, NFA_add_transition_overflows(built, start, end)} :
         /\ built' = IF checked THEN built ELSE NFA_add_transition(built, start, end, label)
         /\ built_op' = [op |-> "add_transition", before |-> built,
                         start |-> start, end |-> end, label |-> label,
                         returned |-> IF checked THEN "none"
                                      ELSE NFA_add_transition_returns(built, start, end),
                         panic |-> checked, count |-> built_op.count + 1,
                         operands |-> <<>>]
    /\ UNCHANGED <<class_vars, table_vars,
                   expr, pos, state, status, nfa, conv, dfa, dfa_status, call>>

BuildUnion ==
    /\ CanBuild
    /\ \E o \in BuildOperands(built) :
         \/ Built("union", NFA_union(built, o), <<built, o>>)
         \/ Built("union", NFA_union(o, built), <<o, built>>)

BuildConcatenation ==
    /\ CanBuild
    /\ \E o \in BuildOperands(built) :
         \/ Built("concatenation", NFA_concatenation(built, o), <<built, o>>)
         \/ Built("concatenation", NFA_concatenation(o, built), <<o, built>>)

BuildKleeneStar == CanBuild /\ Built("kleene_star", NFA_kleene_star(built), <<built>>)

BuildCombine ==
    /\ CanBuild
    /\ \E o \in BuildOperands(built) :
         \/ Built("combine", NFA_combine(<<built, o>>), <<built, o>>)
         \/ Built("combine", NFA_combine(<<o, built>>), <<o, built>>)

BuilderNext ==
    \/ BuildNewEpsilon \/ BuildAddState \/ BuildAddTransition
    \/ BuildUnion \/ BuildConcatenation \/ BuildKleeneStar \/ BuildCombine

BuilderSpec == BuilderInit /\ [][BuilderNext]_vars

-----------------------------------------------------------------------------
(* src/table.rs: Table<T, U, V>, the nested maps as the set of their         *)
(* <<row, col, val>> entries; an Option is the set of at most one value.     *)
(* The values are sets, and the callback of set_or inserts one element, as   *)
(* in NFA::add_transition.                                                   *)

\* get and get_mut: the value stored under (row, col), if any
Table_get(t, row, col) == {x[3] : x \in {y \in t : y[1] = row /\ y[2] = col}}

\* set with the entry kept when the key is present
Table_set_keeps_old(t, row, col, val) ==
    IF Table_get(t, row, col) # {} THEN t ELSE t \cup {<<row, col, val>>}

\* set: HashMap::insert into the row, or a new row holding the one entry
Table_set(t, row, col, val) ==
    {x \in t : ~(x[1] = row /\ x[2] = col)} \cup {<<row, col, val>>}

\* the Option returned by set: what HashMap::insert returns, None for a new row
Table_set_returns(t, row, col) == Table_get(t, row, col)

\* set_or: the callback on the stored value, or set when there is none
Table_set_or(t, row, col, val, elem) ==
    IF Table_get(t, row, col) # {}
    THEN {IF x[1] = row /\ x[2] = col THEN <<row, col, x[3] \cup {elem}>> ELSE x : x \in t}
    ELSE Table_set(t, row, col, val)

\* get_row: the (col, val) pairs of the row, none for an absent row
Table_get_row(t, row) == {<<x[2], x[3]>> : x \in {y \in t : y[1] = row}}

TableInit ==
    /\ table = Table_new
    /\ table_op = NoTableOp
    /\ built = NFA_new /\ built_op = NoBuiltOp
    /\ class_ranges = CharClass_new /\ inserted = <<>> /\ class_op = NoClassOp
    /\ expr = <<>> /\ pos = 0 /\ state = ParserState_new /\ status = "parsing"
    /\ nfa = {} /\ conv = NoConv /\ dfa = {} /\ dfa_status = "none" /\ call = NoCall

TableRows == {0, 1}

TableCols == {0, 1}

TableVals == SUBSET {0, 1}

CanCall == table_op.count < MaxTableOps

\* a call with its arguments has returned, leaving the table t
Called(op, t, row, col, val, elem, returned) ==
    /\ table' = t
    /\ table_op' = [op |-> op, before |-> table, row |-> row, col |-> col, val |-> val,
                    elem |-> elem, returned |-> returned, count |-> table_op.count + 1]
    /\ UNCHANGED <<class_vars, builder_vars,
                   expr, pos, state, status, nfa, conv, dfa, dfa_status, call>>

TableSet ==
    /\ CanCall
    /\ \E row \in TableRows : \E col \in TableCols : \E val \in TableVals :
         Called("set", Table_set(table, row, col, val), row, col, val, 0,
                Table_set_returns(table, row, col))

TableSetOr ==
    /\ CanCall
    /\ \E row \in TableRows : \E col \in TableCols : \E val \in TableVals : \E elem \in {0, 1} :
         Called("set_or", Table_set_or(table, row, col, val, elem), row, col, val, elem, {})

TableGet ==
    /\ CanCall
    /\ \E row \in TableRows : \E col \in TableCols :
         Called("get", table, row, col, {}, 0, Table_get(table, row, col))

TableGetRow ==
    /\ CanCall
    /\ \E row \in TableRows :
         Called("get_row", table, row, 0, {}, 0, Table_get_row(table, row))

TableNext == TableSet \/ TableSetOr \/ TableGet \/ TableGetRow

TableSpec == TableInit /\ [][TableNext]_vars

\* the transitions leaving one DFA state carry pairwise disjoint classes
DFADeterministic ==
    \A t \in conv.dfa.transition : \A u \in conv.dfa.transition :
        (t[1] = u[1] /\ t # u) => CharClass_is_empty(CharClass_intersection(t[2], u[2]))

-----------------------------------------------------------------------------
(* Reference notions the properties are stated against *)

TheNFA == Unwrap(nfa)

TheDFA == Unwrap(dfa)

\* the NFA is accepting after consuming the whole of input
NFA_AcceptsWhole(n, input) ==
    NFA_any_accepting(n, NFA_run(n, epsilon_closure(n, n.start_state), input))

\* the DFA consumed the whole of input without getting stuck and ended in a final state
DFA_AcceptsWhole(d, input) ==
    /\ Len(DFA_iter_on(d, input)) = Len(input)
    /\ DFA_is_final_state(d, IF input = <<>> THEN d.initial_state
                             ELSE Last(DFA_iter_on(d, input)).state)

\* the numbers of symbols after which the engine, started at the beginning of
\* suffix, is accepting (for the DFA: not stuck before)
NFA_AcceptingLengths(n, suffix) ==
    {j \in 0..Len(suffix) : NFA_AcceptsWhole(n, SubSeq(suffix, 1, j))}

DFA_AcceptingLengths(d, suffix) ==
    {j \in 0..Len(suffix) : DFA_AcceptsWhole(d, SubSeq(suffix, 1, j))}

\* the match of j symbols of input from offset k
MatchOfLength(input, k, j) == Match_new(k, k + j, SubSeq(input, k + 1, k + j))

LongestMatch(lengths, input, k) ==
    IF lengths = {} THEN {}
    ELSE {MatchOfLength(input, k, CHOOSE j \in lengths : \A i \in lengths : i <= j)}

ShortestMatch(lengths, input, k) ==
    IF lengths = {} THEN {}
    ELSE {MatchOfLength(input, k, CHOOSE j \in lengths : \A i \in lengths : j <= i)}

Shifted(found, k) == {Match_new(m.start + k, m.end + k, m.span) : m \in found}

MatchLength(m) == m.end - m.start

\* patterns of literals, groups and operators only (no class, no escape)
PlainPattern(p) == \A i \in 1..Len(p) : p[i] \in CoreChars \cup {Plus, Question}

ParenDepth(p, i) ==
    Cardinality({j \in 1..i : p[j] = LParen}) - Cardinality({j \in 1..i : p[j] = RParen})

UnbalancedParentheses(p) ==
    (\E i \in 1..Len(p) : ParenDepth(p, i) < 0) \/ ParenDepth(p, Len(p)) # 0

\* a postfix operator with nothing before it, or a `|` with a side missing
DanglingOperator(p) ==
    \E i \in 1..Len(p) :
        \/ p[i] \in {Star, Plus, Question} /\ (i = 1 \/ p[i - 1] \in {LParen, Pipe})
        \/ p[i] = Pipe /\ (i = 1 \/ i = Len(p) \/ p[i - 1] \in {LParen, Pipe}
                           \/ p[i + 1] = RParen)

Malformed(p) == PlainPattern(p) /\ (UnbalancedParentheses(p) \/ DanglingOperator(p))

\* the malformed patterns of regexp2/tests/test_malformed.rs
ListedMalformed ==
    {<<LParen>>, <<RParen>>, <<ChA, LParen>>, <<LParen, LParen, RParen>>, <<Star>>,
     <<Pipe>>, <<Star, ChA>>, <<Star, Star>>, <<ChA, Pipe>>, <<ChA, RParen, Star>>,
     <<LParen, ChA, ChB>>}

-----------------------------------------------------------------------------
(* Properties *)

\* C1: for every pattern that parses and every input, the NFA-backed and the
\* DFA-backed regex return the same boolean from is_match.
C1_EnginesAgreeOnIsMatch ==
    call.op = "is_match" => call.nfa_is_match = call.dfa_is_match

\* C2: is_match returns true if and only if the whole input is consumed and the
\* engine is accepting at the end; a DFA that got stuck before the end of the
\* input returns false even when it entered an accepting state earlier.
C2_IsMatchIffWholeInputAccepted ==
    call.op = "is_match" =>
        /\ call.nfa_is_match <=> NFA_AcceptsWhole(TheNFA, call.input)
        /\ call.dfa_is_match <=> DFA_AcceptsWhole(TheDFA, call.input)

\* C3: on the empty input is_match returns true whenever the start state is
\* accepting (NFA: the epsilon closure of the start state holds an accepting
\* state; DFA: the initial state is final).
C3_EmptyInputMatchesWhenStartAccepting ==
    (call.op = "is_match" /\ call.input = <<>>) =>
        /\ NFA_any_accepting(TheNFA, epsilon_closure(TheNFA, TheNFA.start_state))
               => call.nfa_is_match
        /\ DFA_is_final_state(TheDFA, TheDFA.initial_state) => call.dfa_is_match

\* C4: find_at(s, k) returns a match iff find(s[k..]) does, with the same span
\* and with start and end greater by k.
C4_FindAtIsFindOnSuffix ==
    call.op = "find_at" =>
        /\ call.nfa_found = Shifted(NFA_find_at(TheNFA, Skip(call.input, call.start), 0),
                                    call.start)
        /\ call.dfa_found = Shifted(DFA_find_at(TheDFA, Skip(call.input, call.start), 0),
                                    call.start)

\* C5: when find_shortest(s) and find(s) both return a match, the find_shortest
\* match is no longer than the find match and both have the same start.
C5_ShortestNoLongerThanFind ==
    (call.op = "find_shortest_at" /\ call.start = 0) =>
        /\ \A m \in call.nfa_found : \A f \in NFA_find_at(TheNFA, call.input, 0) :
               MatchLength(m) <= MatchLength(f) /\ m.start = f.start
        /\ \A m \in call.dfa_found : \A f \in DFA_find_at(TheDFA, call.input, 0) :
               MatchLength(m) <= MatchLength(f) /\ m.start = f.start

\* C5 witness: find_shortest(s) returned a match strictly shorter than the match of find(s)
C5_Witness ==
    /\ call.op = "find_shortest_at" /\ call.start = 0
    /\ \E m \in call.nfa_found : \E f \in NFA_find_at(TheNFA, call.input, 0) :
           MatchLength(m) < MatchLength(f)
    /\ \E m \in call.dfa_found : \E f \in DFA_find_at(TheDFA, call.input, 0) :
           MatchLength(m) < MatchLength(f)

\* C6: every Match a search operation returns has end - start = |span|.
C6_MatchEndMinusStartIsSpanLength ==
    call.op \in {"find_at", "find_shortest_at"} =>
        \A m \in call.nfa_found \cup call.dfa_found : m.end - m.start = Len(m.span)

\* C7: find returns the match at the last position, from the start offset on,
\* at which the engine was accepting before it got stuck or the input ended,
\* and None exactly when it was accepting at no position.
C7_FindReturnsLongestAcceptingPrefix ==
    call.op = "find_at" =>
        /\ call.nfa_found =
               LongestMatch(NFA_AcceptingLengths(TheNFA, Skip(call.input, call.start)),
                            call.input, call.start)
        /\ call.dfa_found =
               LongestMatch(DFA_AcceptingLengths(TheDFA, Skip(call.input, call.start)),
                            call.input, call.start)

\* C8: find_shortest returns the match ending at the earliest position at which
\* the engine is accepting: the zero-length match at the start offset when the
\* engine is accepting before consuming any symbol.
C8_FindShortestReturnsEarliestAccept ==
    call.op = "find_shortest_at" =>
        /\ call.nfa_found =
               ShortestMatch(NFA_AcceptingLengths(TheNFA, Skip(call.input, call.start)),
                             call.input, call.start)
        /\ call.dfa_found =
               ShortestMatch(DFA_AcceptingLengths(TheDFA, Skip(call.input, call.start)),
                             call.input, call.start)

\* C9: compiling a pattern with unbalanced parentheses or a dangling operator
\* ends with a parse error, without a panic and before any engine is built, so
\* that both constructors (RegExp::new goes through new_nfa) return the error.
C9_MalformedPatternsReturnParseError ==
    (status # "parsing" /\ (Malformed(expr) \/ expr \in ListedMalformed)) =>
        /\ status = "error"
        /\ state.err \in {"UnbalancedParentheses", "UnbalancedOperators"}
        /\ nfa = {} /\ dfa_status = "none"

\* C9 witness: the parse of a malformed pattern ended, an open parenthesis left
\* on the operator stack
C9_Witness ==
    /\ status = "error" /\ state.err = "UnbalancedParentheses"
    /\ expr = <<LParen, ChA, ChB>>

\* C10: compiling any pattern whatsoever ends with a compiled regex or a parse
\* error and never panics.
C10_CompileNeverPanics ==
    status # "panic" /\ dfa_status \notin {"overflow", "panic"}

\* a `[` outside a class and unescaped (nothing before it opens a class or
\* escapes), closed by `]` with nothing, or only the negation `^`, in between
EmptyBracketAt(p, i) ==
    /\ p[i] = LBracket
    /\ \A j \in 1..(i - 1) : p[j] \notin {LBracket, Backslash}
    /\ \/ i + 1 <= Len(p) /\ p[i + 1] = RBracket
       \/ i + 2 <= Len(p) /\ p[i + 1] = Caret /\ p[i + 2] = RBracket

HasEmptyBracket(p) == \E i \in 1..Len(p) : EmptyBracketAt(p, i)

\* the parser is about to read an unescaped `]` outside a bracketed class
AtStrayRightBracket ==
    /\ status = "parsing" /\ pos < Len(expr) /\ expr[pos + 1] = RBracket
    /\ ~state.escaped /\ ~state.in_char_class

\* the primitive engine of the literal c
LiteralNFA(c) ==
    Last(NFAParser_shift_action(ParserState_new, CharClass_from_char(c)).stack)

\* C11: a pattern with an empty bracket, a `]` closing a class into which no
\* range or character has been accumulated, is rejected with a parse error.
C11_EmptyBracketIsParseError ==
    (status # "parsing" /\ HasEmptyBracket(expr)) =>
        /\ status = "error" /\ nfa = {} /\ dfa_status = "none"
        /\ state.err \in {"EmptyCharacterClass", "UnbalancedParentheses", "UnbalancedOperators"}

\* C11 witness: the `]` of `a[]` returned EmptyCharacterClass
C11_Witness ==
    /\ status = "error" /\ state.err = "EmptyCharacterClass"
    /\ expr = <<ChA, LBracket, RBracket>> /\ pos = 3

\* C12 as stated: reading an unescaped `]` that closes no open class ends the
\* parse with an error.
C12_StrayRightBracketIsParseError ==
    [][AtStrayRightBracket => status' = "error"]_vars

\* C12 amended: an unescaped `]` that closes no open class is shifted as the
\* literal `]`; the step returns an error only when reducing a pending postfix
\* operator for it finds no operand (UnbalancedOperators).
C12_StrayRightBracketIsLiteral ==
    [][AtStrayRightBracket =>
          /\ status' \in {"parsing", "error"}
          /\ status' = "error" => state'.err = "UnbalancedOperators"
          /\ status' = "parsing" =>
                /\ Len(state'.stack) >= 1 /\ Last(state'.stack) = LiteralNFA(RBracket)
                /\ state'.insert_concat]_vars

\* C12 witness: the `]` of `a]` was shifted as a literal after the `a`
C12_Witness ==
    /\ expr = <<ChA, RBracket>> /\ pos = 2 /\ status = "parsing"
    /\ Len(state.stack) = 2 /\ Last(state.stack) = LiteralNFA(RBracket)

\* C13: `[a]]` compiles and, among the inputs `a]`, `a`, `]`, accepts exactly
\* `a]` on both engines.
C13_ClassThenLiteralRightBracket ==
    expr = <<LBracket, ChA, RBracket, RBracket>> =>
        /\ status \in {"parsing", "compiled"}
        /\ dfa_status \in {"none", "converting", "ready"}
        /\ (call.op = "is_match" /\ call.input \in {<<ChA, RBracket>>, <<ChA>>, <<RBracket>>}) =>
              /\ call.nfa_is_match <=> call.input = <<ChA, RBracket>>
              /\ call.dfa_is_match <=> call.input = <<ChA, RBracket>>

\* C13 witness: is_match of `[a]]` on `a]` returned true on both engines
C13_Witness ==
    /\ expr = <<LBracket, ChA, RBracket, RBracket>>
    /\ call.op = "is_match" /\ call.input = <<ChA, RBracket>>
    /\ call.nfa_is_match /\ call.dfa_is_match

Literals == {ChA, ChB}

\* the language of (x(y*))|z for literals x, y, z
InConcatStarOrLiteral(s, x, y, z) ==
    \/ s = <<z>>
    \/ Len(s) >= 1 /\ s[1] = x /\ \A i \in 2..Len(s) : s[i] = y

\* the language of x|(yz) for literals x, y, z
InLiteralOrConcat(s, x, y, z) == s = <<x>> \/ s = <<y, z>>

\* the operators left pending under the `|` that was just shifted
PendingUnderUnion == Front(state.op_stack)

\* C14: alternation binds loosest, then concatenation, then postfix repetition:
\* `xy*|z` denotes (x(y*))|z and `x|yz` denotes x|(yz); when `|` is shifted no
\* concatenation or postfix operator is left pending on top of the operator
\* stack.  The language is observed through the NFA-backed is_match.
C14_AlternationBindsLoosest ==
    /\ \A x \in Literals : \A y \in Literals : \A z \in Literals :
          /\ (call.op = "is_match" /\ expr = <<x, y, Star, Pipe, z>>) =>
                (call.nfa_is_match <=> InConcatStarOrLiteral(call.input, x, y, z))
          /\ (call.op = "is_match" /\ expr = <<x, Pipe, y, z>>) =>
                (call.nfa_is_match <=> InLiteralOrConcat(call.input, x, y, z))
    /\ (status = "parsing" /\ PlainPattern(expr) /\ pos >= 1 /\ expr[pos] = Pipe) =>
          /\ Last(state.op_stack) = "Union"
          /\ PendingUnderUnion # <<>> =>
                Last(PendingUnderUnion) \notin {"Concatenation", "KleeneStar", "Plus", "Optional"}

\* patterns of groups and literals only
GroupsAndLiterals(p) == \A i \in 1..Len(p) : p[i] \in {LParen, RParen} \cup Literals

IsLiteral(c) == c \in Literals

\* C15: an empty group denotes the empty string at any nesting depth and
\* position, after any sequence of earlier groups: a balanced pattern of
\* groups and literals compiles and accepts exactly its literals in order
\* (`()`, `(())`, `()()` exactly the empty input, `()ab` and `a()b` exactly
\* `ab`).  The language is observed through the NFA-backed is_match.
C15_EmptyGroupDenotesEmptyString ==
    (GroupsAndLiterals(expr) /\ ~UnbalancedParentheses(expr) /\ status # "parsing") =>
        /\ status = "compiled"
        /\ call.op = "is_match" =>
              (call.nfa_is_match <=> call.input = SelectSeq(expr, IsLiteral))

IsPrefix(w, s) == Len(w) <= Len(s) /\ SubSeq(s, 1, Len(w)) = w

\* s is a concatenation of one or more words of lang
RECURSIVE OneOrMore(_, _)
OneOrMore(s, lang) ==
    \E w \in lang :
        /\ w # <<>> /\ IsPrefix(w, s)
        /\ (Len(w) = Len(s) \/ OneOrMore(SubSeq(s, Len(w) + 1, Len(s)), lang))

\* C16: the engine built for `A+` accepts exactly the inputs accepted by A
\* followed by A*, one or more repetitions of A and not the empty input; the
\* engines of `A+`, `AA*` and `A*A` accept the same inputs.  The engine is the
\* NFA that reduce_action builds.
C16_PlusIsOneOrMore ==
    \A o \in Operands :
        (call.op = "is_match" /\
         expr \in {o.pat \o <<Plus>>, o.pat \o o.pat \o <<Star>>, o.pat \o <<Star>> \o o.pat}) =>
            (call.nfa_is_match <=> OneOrMore(call.input, o.lang))

\* C16 witness: `(ab)+` accepted two repetitions of its operand
C16_Witness ==
    /\ expr = <<LParen, ChA, ChB, RParen, Plus>>
    /\ call.op = "is_match" /\ call.input = <<ChA, ChB, ChA, ChB>> /\ call.nfa_is_match

\* C17: the engine built for `A?` accepts exactly the empty input and the
\* inputs accepted by A, and rejects two or more occurrences of A.  The engine
\* is the NFA that reduce_action builds.
C17_OptionalIsZeroOrOne ==
    \A o \in Operands :
        (call.op = "is_match" /\ expr = o.pat \o <<Question>>) =>
            (call.nfa_is_match <=> (call.input = <<>> \/ call.input \in o.lang))

\* C17 witness: `a?` rejected two occurrences of its operand
C17_Witness ==
    /\ expr = <<ChA, Question>>
    /\ call.op = "is_match" /\ call.input = <<ChA, ChA>> /\ ~call.nfa_is_match

\* the stored value r covers the inserted value v
Covers(r, v) == r.start <= v.start /\ v.end <= r.end

\* C18: after any sequence of inserts no two distinct stored values of the
\* merge-set intersect, also after inserting a value that overlaps two or more
\* stored values.
C18_StoredValuesDisjoint ==
    \A a \in class_ranges : \A b \in class_ranges : a # b => ~intersects_with(a, b)

\* C19: after any sequence of inserts every inserted value is contained in
\* exactly one stored value, and iteration yields the stored values in
\* strictly ascending key order.
C19_InsertedCoveredExactlyOnce ==
    /\ \A i \in 1..Len(inserted) :
           Cardinality({r \in class_ranges : Covers(r, inserted[i])}) = 1
    /\ \A i \in 1..(Len(MergeSet_iter(class_ranges)) - 1) :
           MergeSet_iter(class_ranges)[i].start < MergeSet_iter(class_ranges)[i + 1].start

\* C20: after any sequence of add_range calls the stored class_ranges of a character
\* class are pairwise disjoint and non-adjacent: a range ending at c and one
\* starting at c + 1 are merged into one.
C20_RangesDisjointAndNonAdjacent ==
    \A a \in class_ranges : \A b \in class_ranges :
        a # b => (~intersects_with(a, b) /\ a.end + 1 # b.start)

-----------------------------------------------------------------------------
(* Complement and disjoin *)

\* the ranges of cc cover every code point of lo..hi
RECURSIVE CoveredFrom(_, _, _)
CoveredFrom(cc, lo, hi) ==
    \/ lo > hi
    \/ \E r \in cc : r.start <= lo /\ lo <= r.end /\ CoveredFrom(cc, r.end + 1, hi)

\* the two classes share a code point
SharePoint(a, b) == \E r \in a : \E q \in b : r.start <= q.end /\ q.start <= r.end

\* C21: for every character class cc, cc.intersection(cc.complement()) is
\* empty: no code point is contained in both a class and its complement.
C21_ClassAndComplementDisjoint ==
    (class_op.op = "complement" /\ ~class_op.panic) =>
        /\ CharClass_is_empty(CharClass_intersection(class_op.arg, class_op.result))
        /\ ~SharePoint(class_op.arg, class_op.result)

C21_Witness ==
    /\ class_op.op = "complement" /\ ~class_op.panic
    /\ Cardinality(class_op.arg) = 2
    /\ class_op.result # {}

\* C22: for every character class cc, cc.complement().complement() returns a
\* class equal to cc, and the computation completes without panicking.
C22_ComplementIsInvolution ==
    class_op.op = "complement" =>
        /\ ~class_op.panic
        /\ ~CharClass_complement_panics(class_op.result)
        /\ CharClass_complement(class_op.result) = class_op.arg

\* C23: the complement of the empty character class is the universe: it
\* contains every scalar value, U+0000..U+D7FF and U+E000..U+10FFFF.
C23_ComplementOfEmptyIsUniverse ==
    (class_op.op = "complement" /\ CharClass_is_empty(class_op.arg)) =>
        /\ ~class_op.panic
        /\ CoveredFrom(class_op.result, USV_START_1, USV_END_1)
        /\ CoveredFrom(class_op.result, USV_START_2, USV_END_2)

\* C24: complementing a class whose endpoints are valid scalar values
\* completes without panicking and yields only ranges whose endpoints are
\* valid scalar values, also when a range ends at U+D7FF or starts at U+E000.
C24_ComplementNeverPanics ==
    class_op.op = "complement" =>
        /\ ~class_op.panic
        /\ \A r \in class_op.result : IsChar(r.start) /\ IsChar(r.end)

\* C25: the pieces returned by disjoin are pairwise disjoint and none of them
\* is empty or zero-width.
C25_PiecesDisjointNonEmpty ==
    (class_op.op = "disjoin" /\ ~class_op.panic) =>
        /\ \A i \in 1..Len(class_op.pieces) :
               /\ ~CharClass_is_empty(class_op.pieces[i])
               /\ \A r \in class_op.pieces[i] : r.start <= r.end
        /\ \A i \in 1..Len(class_op.pieces) : \A j \in 1..Len(class_op.pieces) :
               i # j => ~SharePoint(class_op.pieces[i], class_op.pieces[j])

C25_Witness ==
    /\ class_op.op = "disjoin" /\ ~class_op.panic
    /\ Len(class_op.pieces) >= 3
    /\ \E i \in 1..Len(inserted) : \E j \in 1..Len(inserted) :
           i # j /\ intersects_with(inserted[i], inserted[j])

\* every range of every piece
PieceRanges == UNION {class_op.pieces[i] : i \in 1..Len(class_op.pieces)}

\* every range of every input class
InputRanges == UNION {class_op.vec[i] : i \in 1..Len(class_op.vec)}

\* C26: the union of the pieces returned by disjoin equals the union of the
\* input classes, and each piece is either wholly inside or wholly outside
\* each input class.
C26_PiecesPartitionInputs ==
    (class_op.op = "disjoin" /\ ~class_op.panic) =>
        /\ \A r \in InputRanges : CoveredFrom(PieceRanges, r.start, r.end)
        /\ \A r \in PieceRanges : CoveredFrom(InputRanges, r.start, r.end)
        /\ \A i \in 1..Len(class_op.vec) : \A r \in PieceRanges :
               \/ CoveredFrom(class_op.vec[i], r.start, r.end)
               \/ ~SharePoint(class_op.vec[i], {r})

C26_Witness ==
    /\ class_op.op = "disjoin" /\ ~class_op.panic
    /\ Len(class_op.pieces) >= 2
    /\ \E i \in 1..Len(class_op.vec) : \E r \in PieceRanges :
           ~SharePoint(class_op.vec[i], {r})
    /\ \E i \in 1..Len(class_op.vec) : Cardinality(class_op.vec[i]) >= 2

-----------------------------------------------------------------------------
(* Subset construction *)

\* the transitions of d leaving state s
Row(d, s) == {t \in d.transition : t[1] = s}

\* no two entries of a row of d carry labels that share a code point
RowsDeterministic(d) ==
    \A t \in d.transition : \A u \in Row(d, t[1]) : t # u => ~SharePoint(t[2], u[2])

\* C27: in every DFA produced by the subset construction, for every state s
\* and code point k at most one (label, target) entry of the row of s has a
\* label that contains k.
C27_AtMostOneTransitionPerCodePoint ==
    /\ dfa_status = "converting" => RowsDeterministic(conv.dfa)
    /\ \A d \in dfa : RowsDeterministic(d)

C27_Witness ==
    /\ dfa_status = "ready"
    /\ expr = <<Dot, Pipe, ChA>>
    /\ \E d \in dfa : Cardinality(Row(d, d.initial_state)) >= 3

-----------------------------------------------------------------------------
(* NFA constructors *)

\* every state id that n refers to is one of its states
StatesInRange(n) ==
    /\ n.start_state < n.total_states
    /\ \A a \in n.accepting_states : a < n.total_states
    /\ \A t \in n.transition : t[1] < n.total_states /\ t[3] < n.total_states

\* C28: after any sequence of NFA constructor calls (new, new_epsilon,
\* add_state, add_transition, union, concatenation, kleene_star, combine) every
\* source and destination of the transition table, the start state and every
\* accepting state lie in 0..N-1, N the total state count.
C28_StatesInRange == StatesInRange(built)

\* the destinations stored for (source, label)
Dests(n, source, label) == {t[3] : t \in {u \in n.transition : u[1] = source /\ u[2] = label}}

\* C29: add_transition with a source or destination id that is not less than
\* the total state count returns None, does not panic and leaves the
\* transition table unchanged; with ids in range it adds the destination to
\* the set stored for (source, label).
C29_AddTransitionChecksIds ==
    built_op.op = "add_transition" =>
        /\ ~built_op.panic
        /\ IF built_op.start >= built_op.before.total_states
              \/ built_op.end >= built_op.before.total_states
           THEN /\ built_op.returned = "None"
                /\ built.transition = built_op.before.transition
           ELSE /\ built_op.returned = "Some"
                /\ Dests(built, built_op.start, built_op.label) =
                       Dests(built_op.before, built_op.start, built_op.label)
                           \cup {built_op.end}

-----------------------------------------------------------------------------
(* The two-key table *)

\* the entries of t under every key but (row, col)
OtherEntries(t, row, col) == {x \in t : ~(x[1] = row /\ x[2] = col)}

\* the value the last call stored under its key, given the value there before
StoredByLastCall ==
    IF table_op.op = "set_or" /\ Table_get(table_op.before, table_op.row, table_op.col) # {}
    THEN Unwrap(Table_get(table_op.before, table_op.row, table_op.col)) \cup {table_op.elem}
    ELSE table_op.val

\* C30: after any sequence of set and set_or calls get(row, col) returns the
\* value most recently stored for the key: set overwrites and returns the
\* prior value if any; set_or stores the seed when the key is absent and
\* otherwise applies the mutation to the existing value; a lookup of an absent
\* key or row returns absent or empty and no lookup changes the table.
C30_TableKeepsMostRecentValue ==
    /\ \A row \in TableRows : \A col \in TableCols :
           Cardinality(Table_get(table, row, col)) <= 1
    /\ table_op.op \in {"set", "set_or"} =>
           /\ Table_get(table, table_op.row, table_op.col) = {StoredByLastCall}
           /\ OtherEntries(table, table_op.row, table_op.col) =
                  OtherEntries(table_op.before, table_op.row, table_op.col)
    /\ table_op.op = "set" =>
           table_op.returned = Table_get(table_op.before, table_op.row, table_op.col)
    /\ table_op.op = "get" =>
           /\ table = table_op.before
           /\ table_op.returned =
                  {x[3] : x \in {y \in table_op.before :
                                     y[1] = table_op.row /\ y[2] = table_op.col}}
    /\ table_op.op = "get_row" =>
           /\ table = table_op.before
           /\ table_op.returned =
                  {<<x[2], x[3]>> : x \in {y \in table_op.before : y[1] = table_op.row}}

C30_Witness ==
    /\ table_op.op = "set"
    /\ table_op.returned # {}
    /\ table_op.returned # {table_op.val}
    /\ \E x \in table_op.before : x[1] = table_op.row /\ x[2] # table_op.col

-----------------------------------------------------------------------------
(* Bracketed classes *)

\* the characters between the brackets of a one-class pattern
BracketBody(pat) == SubSeq(pat, 2, Len(pat) - 1)

\* the members listed by a class body: x-y is a range, any other character
\* is itself
RECURSIVE ListedMembers(_)
ListedMembers(body) ==
    IF body = <<>> THEN {}
    ELSE IF Len(body) >= 3 /\ body[2] = Dash
         THEN (body[1]..body[3]) \cup ListedMembers(SubSeq(body, 4, Len(body)))
         ELSE {body[1]} \cup ListedMembers(Tail(body))

\* a leading ^ negates; every later ^ is a member
ClassAccepts(pat, c) ==
    IF BracketBody(pat)[1] = Caret
    THEN c \notin ListedMembers(Tail(BracketBody(pat)))
    ELSE c \in ListedMembers(BracketBody(pat))

\* one-class patterns with a ^ in first or in later position
CaretClassPatterns ==
    {<<LBracket, Caret, Ch1, Dash, Ch8, RBracket>>,
     <<LBracket, ChA, Caret, Ch1, Dash, Ch8, RBracket>>,
     <<LBracket, Caret, Caret, ChA, RBracket>>,
     <<LBracket, ChA, Caret, RBracket>>,
     <<LBracket, Caret, ChA, Caret, RBracket>>}

\* C31: in a bracketed class a ^ right after [ negates the class and a ^ at
\* any later position is an ordinary member: the pattern compiles and a
\* one-character input is accepted exactly when the class so read has it.
C31_CaretNegatesOnlyWhenFirst ==
    expr \in CaretClassPatterns =>
        /\ status \in {"parsing", "compiled"}
        /\ (call.op = "is_match" /\ Len(call.input) = 1) =>
              /\ call.nfa_is_match <=> ClassAccepts(expr, call.input[1])
              /\ call.dfa_is_match <=> ClassAccepts(expr, call.input[1])

-----------------------------------------------------------------------------
(* Thompson constructors *)

\* the sum of the state counts of a list of operands
RECURSIVE TotalStates(_)
TotalStates(cc) == IF cc = <<>> THEN 0 ELSE Head(cc).total_states + TotalStates(Tail(cc))

\* the accepting states of the operands, each shifted by the states before it
\* and by first
RECURSIVE ShiftedAccepting(_, _)
ShiftedAccepting(cc, first) ==
    IF cc = <<>> THEN {}
    ELSE Offset(Head(cc).accepting_states, first)
             \cup ShiftedAccepting(Tail(cc), first + Head(cc).total_states)

\* C32: union gives |A|+|B|+2 states and one accepting state; concatenation
\* gives |A|+|B| states, the start of A and exactly the shifted accepting
\* states of B; kleene_star gives |A|+2 states and one accepting state;
\* combine gives 1 + the sum of the state counts, start 0 and the union of
\* the shifted accepting states of the children.
C32_ConstructorShapes ==
    /\ built_op.op = "union" =>
           /\ built.total_states = TotalStates(built_op.operands) + 2
           /\ Cardinality(built.accepting_states) = 1
    /\ built_op.op = "concatenation" =>
           /\ built.total_states = TotalStates(built_op.operands)
           /\ built.start_state = built_op.operands[1].start_state
           /\ built.accepting_states =
                  Offset(built_op.operands[2].accepting_states,
                         built_op.operands[1].total_states)
    /\ built_op.op = "kleene_star" =>
           /\ built.total_states = TotalStates(built_op.operands) + 2
           /\ Cardinality(built.accepting_states) = 1
    /\ built_op.op = "combine" =>
           /\ built.total_states = 1 + TotalStates(built_op.operands)
           /\ built.start_state = 0
           /\ built.accepting_states = ShiftedAccepting(built_op.operands, 1)

C32_Witness ==
    /\ built_op.op = "concatenation"
    /\ built_op.operands[1].accepting_states # {}
    /\ built_op.operands[2].accepting_states # {}
    /\ built_op.operands[1].total_states >= 4

-----------------------------------------------------------------------------
(* Epsilon closure *)

\* C33: for every NFA produced by the parser, also one with an epsilon cycle
\* made by a Kleene star over an operand that accepts the empty string,
\* epsilon_closure of every state returns after finitely many steps with
\* bounded stack depth.
C33_EpsilonClosureTerminates ==
    \A n \in nfa : \A s \in 0..(n.total_states - 1) : ~epsilon_closure_overflows(n, s)

-----------------------------------------------------------------------------
(* Totality of is_match *)

\* C34: for every compiled regex, NFA-backed or DFA-backed, and every input,
\* is_match terminates and returns a boolean, and the DFA takes at most one
\* transition step per input symbol.
C34_IsMatchIsTotal ==
    call.op = "is_match" =>
        /\ ~call.nfa_overflow
        /\ call.dfa_steps <= Len(call.input)

-----------------------------------------------------------------------------
(* The two engines on find *)

\* C35: for the NFA-backed and the DFA-backed regex of one pattern, every
\* input s and offset k, find_at(s, k) and find_shortest_at(s, k) return the
\* same result under both engines (both None, or matches with equal start,
\* end and span), also the zero-length match of a pattern that accepts the
\* empty string.
C35_EnginesAgreeOnFind ==
    call.op \in {"find_at", "find_shortest_at"} => call.nfa_found = call.dfa_found

-----------------------------------------------------------------------------
(* What epsilon_closure returns *)

\* the states reachable from seen through Epsilon transitions out of frontier
RECURSIVE EpsilonReachable(_, _, _)
EpsilonReachable(n, frontier, seen) ==
    IF frontier = {} THEN seen
    ELSE EpsilonReachable(
             n,
             {t[3] : t \in {u \in n.transition : u[1] \in frontier /\ u[2] = Epsilon}} \ seen,
             seen \cup {t[3] : t \in {u \in n.transition : u[1] \in frontier /\ u[2] = Epsilon}})

\* the parser has just produced the NFA n, which has no epsilon cycle
JustParsed(n) ==
    /\ status = "compiled" /\ dfa_status = "none" /\ n \in nfa
    /\ \A s \in 0..(n.total_states - 1) : ~epsilon_closure_overflows(n, s)

\* C36: epsilon_closure(s) returns exactly the states reachable from s by
\* zero or more Epsilon transitions, s itself among them and no state that
\* is reachable through a symbol transition only; epsilon_closure_set(S)
\* returns the union of the closures of the members of S.
C36_EpsilonClosureIsReachability ==
    \A n \in nfa : JustParsed(n) =>
        /\ \A s \in 0..(n.total_states - 1) :
               epsilon_closure(n, s) = EpsilonReachable(n, {s}, {s})
        /\ epsilon_closure_set(n, {}) = {}
        /\ \A s \in 0..(n.total_states - 1) : \A t \in 0..(n.total_states - 1) :
               epsilon_closure_set(n, {s, t}) =
                   EpsilonReachable(n, {s}, {s}) \cup EpsilonReachable(n, {t}, {t})

C36_Witness ==
    \E n \in nfa :
        /\ JustParsed(n)
        /\ Cardinality(epsilon_closure(n, n.start_state)) >= 4
        /\ \E u \in n.transition :
               u[1] \in epsilon_closure(n, n.start_state) /\ u[2] # Epsilon
                   /\ u[3] \notin epsilon_closure(n, n.start_state)

-----------------------------------------------------------------------------
(* The states of the subset construction *)

\* the subset construction is between two iterations of its loop, or done
Converting == dfa_status \in {"converting", "ready"}

\* the DFA states made so far, marked and unmarked
DStates == conv.marked_states \o conv.unmarked_states

\* C37: each distinct set of NFA states is represented by one DFA state: no
\* two states of the marked and unmarked lists have the same NFA set, the
\* lists hold every DFA state once, and the mapping from DFA states to NFA
\* sets is defined for every DFA state, single-valued and injective.
C37_OneStatePerSubset ==
    Converting =>
        /\ \A i \in 1..Len(DStates) : \A j \in 1..Len(DStates) :
               DStates[i].nfa_states = DStates[j].nfa_states => i = j
        /\ {DStates[i].label : i \in 1..Len(DStates)} = 0..(conv.dfa.total_states - 1)
        /\ Len(DStates) = conv.dfa.total_states
        /\ {m[1] : m \in conv.nfa_mapping} = 0..(conv.dfa.total_states - 1)
        /\ \A m \in conv.nfa_mapping : \A k \in conv.nfa_mapping :
               (m[1] = k[1]) <=> (m[2] = k[2])
        /\ \A i \in 1..Len(DStates) :
               <<DStates[i].label, DStates[i].nfa_states>> \in conv.nfa_mapping

\* a finished construction in which a move led back to a state made earlier
C37_Witness ==
    /\ dfa_status = "ready"
    /\ conv.dfa.total_states >= 3
    /\ \E t \in conv.dfa.transition : t[3] < t[1]

\* C38: the subset construction terminates for every NFA the parser
\* produces: once started it is either between two iterations of its loop
\* or done, never aborted; no state is in the marked list twice, and no more
\* DFA states are made than the NFA states have subsets.
C38_SubsetConstructionTerminates ==
    (status = "compiled" /\ dfa_status # "none") =>
        /\ Converting
        /\ \A i \in 1..Len(conv.marked_states) : \A j \in 1..Len(conv.marked_states) :
               conv.marked_states[i].label = conv.marked_states[j].label => i = j
        /\ conv.dfa.total_states <= 2 ^ Unwrap(nfa).total_states

\* C39: a DFA state of the subset construction, the start state included,
\* is accepting if and only if its set of NFA states holds an accepting NFA
\* state; the start state stands for the epsilon closure of the NFA start.
C39_AcceptingIffSubsetAccepts ==
    Converting =>
        /\ <<conv.dfa.initial_state, EpsilonReachable(Unwrap(nfa), {Unwrap(nfa).start_state},
                                                      {Unwrap(nfa).start_state})>>
               \in conv.nfa_mapping
        /\ \A m \in conv.nfa_mapping :
               (m[1] \in conv.dfa.final_states) <=> (m[2] \cap Unwrap(nfa).accepting_states # {})
        /\ conv.dfa.final_states \subseteq {m[1] : m \in conv.nfa_mapping}

\* a finished construction with an accepting start state, another accepting
\* state and a state that is not accepting
C39_Witness ==
    /\ dfa_status = "ready"
    /\ conv.dfa.initial_state \in conv.dfa.final_states
    /\ conv.dfa.final_states \ {conv.dfa.initial_state} # {}
    /\ \E m \in conv.nfa_mapping : m[1] \notin conv.dfa.final_states

-----------------------------------------------------------------------------
(* Shorthand classes inside brackets *)

\* [\d-], [-\dA-Z] and [a-\d]
ShorthandClassPatterns ==
    {<<LBracket, Backslash, Chd, Dash, RBracket>>,
     <<LBracket, Dash, Backslash, Chd, ChUpperA, Dash, ChUpperZ, RBracket>>,
     <<LBracket, ChA, Dash, Backslash, Chd, RBracket>>}

\* the ASCII characters these classes have
ShorthandMembers(pat) ==
    CASE pat = <<LBracket, Backslash, Chd, Dash, RBracket>> -> (Ch0..Ch9) \cup {Dash}
      [] pat = <<LBracket, Dash, Backslash, Chd, ChUpperA, Dash, ChUpperZ, RBracket>> ->
             (Ch0..Ch9) \cup {Dash} \cup (ChUpperA..ChUpperZ)
      [] pat = <<LBracket, ChA, Dash, Backslash, Chd, RBracket>> ->
             (Ch0..Ch9) \cup {Dash, ChA}

AsciiChars == 0..127

\* the parser has just read the \d of the pattern
JustReadShorthand ==
    status = "parsing" /\ pos >= 3 /\ expr[pos] = Chd /\ expr[pos - 1] = Backslash

\* C40: when \d is read inside a bracketed class while the range buffer is
\* incomplete, the buffered characters, a buffered - among them, become
\* single-character ranges of the class and the ranges of \d are merged into
\* it; [\d-], [-\dA-Z] and [a-\d] compile to a class that has -, the digits
\* and the other listed members, and no other character.
C40_ShorthandFlushesRangeBuffer ==
    expr \in ShorthandClassPatterns =>
        /\ status \in {"parsing", "compiled"}
        /\ JustReadShorthand =>
              /\ state.char_range_buf = NoneBuf
              /\ \A c \in AsciiChars :
                     CharClass_contains(state.char_class_buf.class, c)
                         <=> c \in (Ch0..Ch9) \cup {expr[i] : i \in 2..(pos - 2)}
        /\ \A n \in nfa : \A t \in n.transition : ~t[2].eps =>
               \A c \in AsciiChars :
                   CharClass_contains(t[2].cc, c) <=> c \in ShorthandMembers(expr)
        /\ (call.op = "is_match" /\ Len(call.input) = 1) =>
              /\ call.nfa_is_match <=> call.input[1] \in ShorthandMembers(expr)
              /\ call.dfa_is_match <=> call.input[1] \in ShorthandMembers(expr)

\* [-\dA-Z] accepts the one-character input -
C40_Witness ==
    /\ expr = <<LBracket, Dash, Backslash, Chd, ChUpperA, Dash, ChUpperZ, RBracket>>
    /\ call.op = "is_match" /\ call.input = <<Dash>>
    /\ call.nfa_is_match /\ call.dfa_is_match

====
